---- MODULE Spec2Model ----
(***************************************************************************)
(* Voice Island: the character directory (CharacterEngine), the            *)
(* conversation turn (CharacterEngine.interact), the season orchestrator   *)
(* (GameLoop) and the transport's game_state (web/app.py), as one state    *)
(* machine over the shared document store.                                 *)
(*                                                                         *)
(* Strings that the code only stores and compares are strings here; a      *)
(* name or slug is the sequence of its words.  Affinity scores are         *)
(* integers (0 stands for 0.0).  Of a character document the model keeps   *)
(* _id, name, personality, background, traits, subconscious_traits, mood   *)
(* and relationships; voice_type, ethnicity, religion, mental_illness and  *)
(* the two IQ scores are drawn and stored by the code but never read by    *)
(* any branch, and are left out.                                           *)
(***************************************************************************)
EXTENDS Integers, Sequences, FiniteSets, TLC

VARIABLES
    attribute_pools,   \* the attribute_pools collection: pool name -> list of values
    characters,        \* the characters collection, in insertion order
    relationships,     \* the relationships collection, in insertion order
    conversations,     \* the conversations collection, in insertion order
    messages,          \* the messages collection, in insertion (= timestamp) order
    next_oid,          \* the next ObjectId the store hands out
    summary_tasks,     \* the summary refreshes interact() has scheduled, not yet run
    is_running,        \* GameLoop.is_running of the current GameLoop
    game_state,        \* web/app.py game_state: game_loop held?, is_running, status
    call,              \* the orchestrator call in progress (op = "none": no call)
    result,            \* what the last completed call returned or raised
    ended              \* history: a progress_story received is_game_over and no
                       \* start()/start_story() has been called since

vars == <<attribute_pools, characters, relationships, conversations, messages,
          next_oid, summary_tasks, is_running, game_state, call, result, ended>>

store == <<characters, relationships, conversations, messages>>
season == <<is_running, game_state, ended>>

(***************************************************************************)
(* Bounds of the model.                                                    *)
(***************************************************************************)
\* create_characters(count) is called with count in 0..MaxCount
MaxCount == 3
\* the creation specification stops creating at MaxCast characters
MaxCast == 3
\* the exhaustion specification starts with at most MaxFree ids still free
MaxFree == 3
\* at most MaxThreads create_character() calls are in progress at once
MaxThreads == 2

NoCall == [op |-> "none"]
NoResult == [op |-> "none"]

(***************************************************************************)
(* Helpers on sequences and maps.                                          *)
(***************************************************************************)
Range(s) == {s[i] : i \in DOMAIN s}

EmptyMap == <<>>

\* dict.get(key, default)
Get(d, key, default) == IF key \in DOMAIN d THEN d[key] ELSE default

\* {"$set": {"relationships.<key>": value}} on a map
MapSet(d, key, value) == [k \in DOMAIN d \cup {key} |-> IF k = key THEN value ELSE d[k]]

\* the ordered k-samples without replacement of a list: random.sample(pool, k)
Samples(pool, k) ==
    {[i \in 1..k |-> pool[f[i]]] :
        f \in {g \in [1..k -> DOMAIN pool] : \A i, j \in 1..k : i # j => g[i] # g[j]}}

(***************************************************************************)
(* Attribute pools.  SeedPools has the smallest personality pool for which *)
(* random.sample(personality_pool, k) succeeds for k = 2 and k = 3.        *)
(***************************************************************************)
SeedPools ==
    [personality_pool |-> <<"curious", "gruff", "wise">>,
     background_pool |-> <<"explorer">>,
     trait_pool |-> <<"loyal", "sarcastic", "stubborn", "witty">>,
     subconscious_trait_pool |-> <<"Unresolved grief", "A savior complex">>]

\* a personality pool of two values: random.sample(pool, 3) raises ValueError
SmallPools == [SeedPools EXCEPT !.personality_pool = <<"curious", "gruff">>]

(***************************************************************************)
(* CharacterEngine.create_character, lines 60-91: one iteration of the     *)
(* uniqueness loop.                                                        *)
(***************************************************************************)
\* random.randint(2, 3)
PersonalitySizes == 2..3

\* name = f"{' '.join(personality)} {background}".title(): the words of the name
NameOf(personality, background) == personality \o <<background>>

\* slugify(name): the words of the name, lower-cased and joined by hyphens; one
\* slug per word sequence, kept apart from the name by its tag
Slugify(name) == <<"slug">> \o name

\* the draws of one iteration that raise nothing: personality and background
\* decide the id; of traits and subconscious traits the first sample stands for all
Draws(pools) ==
    {[personality |-> p, background |-> b,
      traits |-> SubSeq(pools.trait_pool, 1, 2),
      subconscious_traits |-> SubSeq(pools.subconscious_trait_pool, 1, 1)] :
        p \in UNION {Samples(pools.personality_pool, k) :
                        k \in {n \in PersonalitySizes : n <= Len(pools.personality_pool)}},
        b \in Range(pools.background_pool)}

\* random.sample raises ValueError when k exceeds the pool, random.choice raises
\* IndexError on an empty pool
DrawCanRaise(pools) ==
    \/ \E k \in PersonalitySizes : k > Len(pools.personality_pool)
    \/ pools.background_pool = <<>>

DrawId(d) == Slugify(NameOf(d.personality, d.background))

CharIds(chars) == {chars[i]._id : i \in DOMAIN chars}

\* the uniqueness check left out
IdIsFreeUnchecked(chars, char_id) == TRUE

\* characters_collection.find_one({"_id": char_id}) is None
IdIsFree(chars, char_id) == char_id \notin CharIds(chars)

\* lines 76-91
CharacterDoc(d) ==
    [_id |-> DrawId(d),
     name |-> NameOf(d.personality, d.background),
     personality |-> d.personality,
     background |-> d.background,
     traits |-> d.traits,
     subconscious_traits |-> d.subconscious_traits,
     mood |-> "neutral",
     relationships |-> EmptyMap]

(***************************************************************************)
(* create_character, lines 93-115: relationships with the existing         *)
(* characters, then the insert.                                            *)
(***************************************************************************)
\* line 94: the ids of the characters in the collection, in its order
ExistingCharIds(chars) == [i \in DOMAIN chars |-> chars[i]._id]

\* the update of the existing characters left out
WithViewOfNewSkipped(chars, new_id) == chars

\* lines 98-101: every existing character gets an entry for the new one
WithViewOfNew(chars, new_id) ==
    [i \in DOMAIN chars |->
        [chars[i] EXCEPT !.relationships = MapSet(@, new_id, 0)]]

\* line 103: the new character's entries for the existing ones
ReciprocalRelationships(existing) == [k \in Range(existing) |-> 0]

\* the records created with the affinity the embedded maps later reach
NewRelationshipsAtFive(new_id, existing) ==
    [i \in DOMAIN existing |->
        [char1_id |-> new_id, char2_id |-> existing[i],
         affinity_score |-> 5, interaction_history |-> <<>>]]

\* lines 104-109: one record per existing character
NewRelationships(new_id, existing) ==
    [i \in DOMAIN existing |->
        [char1_id |-> new_id, char2_id |-> existing[i],
         affinity_score |-> 0, interaction_history |-> <<>>]]

\* lines 93-115 on the two collections
InsertCharacter(chars, rels, d) ==
    LET existing == ExistingCharIds(chars)
        doc == [CharacterDoc(d) EXCEPT !.relationships = ReciprocalRelationships(existing)]
    IN  [characters |-> Append(WithViewOfNew(chars, doc._id), doc),
         relationships |-> rels \o NewRelationships(doc._id, existing)]

(***************************************************************************)
(* create_characters / create_character as steps of one call.              *)
(***************************************************************************)
Idle == call.op = "none"

\* lines 29-34: create_characters(count) entered; count = 0 returns at once
CreateCharacters(count) ==
    /\ Idle
    /\ IF count = 0
       THEN /\ result' = [op |-> "create_characters", count |-> 0, new_ids |-> <<>>,
                          from_empty |-> characters = <<>> /\ relationships = <<>>]
            /\ call' = call
       ELSE /\ call' = [op |-> "create_characters", pc |-> "draw", count |-> count,
                        left |-> count, new_ids |-> <<>>, pools |-> attribute_pools,
                        from_empty |-> characters = <<>> /\ relationships = <<>>]
            /\ result' = result
    /\ UNCHANGED <<attribute_pools, store, next_oid, summary_tasks, season>>

\* lines 41-62: create_character() entered, the pools fetched
CreateCharacter ==
    /\ Idle
    /\ call' = [op |-> "create_character", pc |-> "draw", count |-> 1,
                left |-> 1, new_ids |-> <<>>, pools |-> attribute_pools,
                from_empty |-> characters = <<>> /\ relationships = <<>>]
    /\ UNCHANGED <<attribute_pools, store, next_oid, summary_tasks, season, result>>

InDrawLoop == call.op \in {"create_character", "create_characters"} /\ call.pc = "draw"

\* lines 62-75: an iteration whose id is taken; character_doc stays None
DrawCollides ==
    /\ InDrawLoop
    /\ \E d \in Draws(call.pools) : ~IdIsFree(characters, DrawId(d))
    /\ UNCHANGED vars

\* lines 63-70: random.sample / random.choice raises; the call ends with it
DrawRaises ==
    /\ InDrawLoop
    /\ DrawCanRaise(call.pools)
    /\ call' = NoCall
    /\ result' = [op |-> call.op, raised |-> "ValueError"]
    /\ UNCHANGED <<attribute_pools, store, next_oid, summary_tasks, season>>

\* lines 62-117: an iteration whose id is free, and the rest of create_character;
\* create_characters then calls again or returns (lines 34-39)
DrawSucceeds ==
    /\ InDrawLoop
    /\ \E d \in Draws(call.pools) :
        /\ IdIsFree(characters, DrawId(d))
        /\ LET after == InsertCharacter(characters, relationships, d)
               ids == Append(call.new_ids, DrawId(d))
           IN  /\ characters' = after.characters
               /\ relationships' = after.relationships
               /\ IF call.left = 1
                  THEN /\ call' = NoCall
                       /\ result' = [op |-> call.op, count |-> call.count,
                                     new_ids |-> ids, from_empty |-> call.from_empty]
                  ELSE /\ call' = [call EXCEPT !.left = @ - 1, !.new_ids = ids]
                       /\ result' = result
    /\ UNCHANGED <<attribute_pools, conversations, messages, next_oid, summary_tasks,
                   season>>

(***************************************************************************)
(* Ids and strings of ids.  An ObjectId is a number; its string, as        *)
(* str(result.inserted_id) writes it, is <<"hex", n>>.  A string that is   *)
(* no 24-digit hex number is <<"text", n>>, and None is <<>>.              *)
(***************************************************************************)
\* bounds: the store hands out ObjectIds 1..MaxOid
MaxOid == 6
\* the director-control messages of one season
MaxScenes == 3
MaxObservations == 2
MaxTurns == 20
MaxItems == 4
MaxTopK == 3
MaxRanked == 3

None == <<>>
ObjectIdStr(oid) == <<"hex", oid>>
\* a well-formed ObjectId string the store never handed out
UnknownOidStr == ObjectIdStr(0)

\* ObjectId(s) raises InvalidId unless s is a 24-digit hex string
IsValidObjectId(s) == Len(s) = 2 /\ s[1] = "hex"
ObjectIdOf(s) == s[2]

\* an id that no draw of the pools yields
UnknownCharId == <<"slug", "friendly", "explorer">>

\* collection.find_one({"_id": id}): the positions holding that id
Find(coll, id) == {i \in DOMAIN coll : coll[i]._id = id}
Exists(coll, id) == Find(coll, id) # {}
FindOne(coll, id) == coll[CHOOSE i \in Find(coll, id) : \A j \in Find(coll, id) : i <= j]

\* collection.update_one({"_id": id}, ...): the first document with that id, if any
\* becomes the document changed
UpdateOne(coll, id, changed) ==
    [i \in DOMAIN coll |->
        IF Exists(coll, id) /\ i = CHOOSE k \in Find(coll, id) : \A j \in Find(coll, id) : k <= j
        THEN changed ELSE coll[i]]

(***************************************************************************)
(* What LLMHandler.get_response(json_format=True) hands back, lines 78-98: *)
(* None on a transport failure, the parsed JSON value, or the unparsed     *)
(* text.                                                                   *)
(***************************************************************************)
LLMNone == [kind |-> "none"]
LLMText(text) == [kind |-> "str", text |-> text]
LLMDict(d) == [kind |-> "dict", dict |-> d]
\* a JSON value that is neither an object nor a string: a list of n elements
LLMList(n) == [kind |-> "list", len |-> n]

\* Python truth of the value: `if not llm_response`
Truthy(resp) ==
    CASE resp.kind = "none" -> FALSE
      [] resp.kind = "str" -> resp.text # ""
      [] resp.kind = "dict" -> DOMAIN resp.dict # {}
      [] resp.kind = "list" -> resp.len > 0

\* the responses every generation call is tried with
CommonResponses == {LLMNone, LLMText(""), LLMText("Well, hello."), LLMDict(EmptyMap), LLMList(1)}

(***************************************************************************)
(* CharacterEngine.interact, lines 119-309.                                *)
(***************************************************************************)
PlayerTexts == {"Hello, how are you today?"}

ParseFailureNote == "LLM did not return valid JSON."

\* the objects interact() is tried with, for the character it talks to
InteractObjects(character) ==
    LET base == [name |-> character.name, dialogue |-> "Hi!", emotion |-> "joy"]
    IN  { base,
          [name |-> character.name, emotion |-> "joy"],
          [base EXCEPT !.dialogue = ""],
          [name |-> character.name, dialogue |-> "Hi!", emotion |-> "joy",
           relationships |-> EmptyMap],
          [name |-> character.name, dialogue |-> "Hi!", emotion |-> "joy",
           mood |-> "happy", action |-> "waves", memory_note |-> "met the player",
           choices |-> <<"Ask about the villa">>,
           relationships |-> [k \in DOMAIN character.relationships |-> 5],
           traits |-> <<"bold">>, subconscious_traits |-> <<"Repressed memories">>] }

\* the responses the call in progress, if it is an interact(), may receive
PendingInteractResponses ==
    IF call.op = "interact"
    THEN CommonResponses \cup {LLMDict(d) : d \in InteractObjects(call.character)}
    ELSE {}

\* the fallback with the mood reset instead of reused
StringFallbackNeutralMood(character, text) ==
    [name |-> character.name,
     personality |-> character.personality,
     mood |-> "neutral",
     dialogue |-> text,
     emotion |-> "neutral",
     action |-> "",
     memory_note |-> "LLM did not return valid JSON.",
     choices |-> <<>>,
     relationships |-> Get(character, "relationships", EmptyMap),
     traits |-> Get(character, "traits", <<>>),
     subconscious_traits |-> Get(character, "subconscious_traits", <<>>)]

\* lines 218-231: the fallback for a string response
StringFallback(character, text) ==
    [name |-> character.name,
     personality |-> character.personality,
     mood |-> character.mood,
     dialogue |-> text,
     emotion |-> "neutral",
     action |-> "",
     memory_note |-> ParseFailureNote,
     choices |-> <<>>,
     relationships |-> Get(character, "relationships", EmptyMap),
     traits |-> Get(character, "traits", <<>>),
     subconscious_traits |-> Get(character, "subconscious_traits", <<>>)]

\* the fields read with no default for a missing dialogue
ProcessedBlankDialogue(character, r) ==
    [dialogue |-> Get(r, "dialogue", ""),
     new_mood |-> Get(r, "mood", character.mood),
     emotion |-> Get(r, "emotion", character.mood),
     memory_note |-> Get(r, "memory_note", ""),
     choices |-> Get(r, "choices", <<>>),
     updated_relationships |-> Get(r, "relationships", Get(character, "relationships", EmptyMap)),
     updated_traits |-> Get(r, "traits", Get(character, "traits", <<>>)),
     updated_subconscious |-> Get(r, "subconscious_traits",
                                  Get(character, "subconscious_traits", <<>>)),
     action |-> Get(r, "action", "")]

\* lines 234-241: the fields read from the response, with their defaults
Processed(character, r) ==
    [dialogue |-> Get(r, "dialogue", "I am speechless."),
     new_mood |-> Get(r, "mood", character.mood),
     emotion |-> Get(r, "emotion", character.mood),
     memory_note |-> Get(r, "memory_note", ""),
     choices |-> Get(r, "choices", <<>>),
     updated_relationships |-> Get(r, "relationships", Get(character, "relationships", EmptyMap)),
     updated_traits |-> Get(r, "traits", Get(character, "traits", <<>>)),
     updated_subconscious |-> Get(r, "subconscious_traits",
                                  Get(character, "subconscious_traits", <<>>)),
     action |-> Get(r, "action", "")]

\* lines 244-252
PlayerMessageDoc(oid, conversation_id, text) ==
    [_id |-> oid, conversation_id |-> conversation_id, speaker_type |-> "player",
     speaker_id |-> <<"player">>, content |-> text, emotion |-> "n/a",
     context_tags |-> <<>>]

\* lines 256-270: the context tags, then the document
CharacterMessageDoc(oid, conversation_id, character_id, p) ==
    [_id |-> oid, conversation_id |-> conversation_id, speaker_type |-> "character",
     speaker_id |-> character_id, content |-> p.dialogue, emotion |-> p.emotion,
     context_tags |->
        (IF p.action # "" THEN <<[type |-> "action", value |-> p.action]>> ELSE <<>>)
        \o (IF p.memory_note # ""
            THEN <<[type |-> "memory_note", value |-> p.memory_note]>> ELSE <<>>)]

\* the returned relationships merged into the stored map instead of replacing it
CharacterUpdatesMerging(p, doc) ==
    [doc EXCEPT !.mood = p.new_mood,
                !.relationships =
                    [k \in DOMAIN doc.relationships \cup DOMAIN p.updated_relationships |->
                        IF k \in DOMAIN p.updated_relationships
                        THEN p.updated_relationships[k] ELSE doc.relationships[k]],
                !.traits = p.updated_traits,
                !.subconscious_traits = p.updated_subconscious]

\* lines 283-289: the $set on the character
CharacterUpdates(p, doc) ==
    [doc EXCEPT !.mood = p.new_mood,
                !.relationships = p.updated_relationships,
                !.traits = p.updated_traits,
                !.subconscious_traits = p.updated_subconscious]

\* lines 295-309
InteractEnvelope(conversation_id, p) ==
    [op |-> "interact",
     dialogue |-> p.dialogue,
     audio_path |-> None,
     conversation_id |-> conversation_id,
     character_state |-> [mood |-> p.new_mood, emotion |-> p.emotion,
                          relationships |-> p.updated_relationships,
                          traits |-> p.updated_traits,
                          subconscious_traits |-> p.updated_subconscious],
     choices |-> p.choices,
     action |-> p.action,
     memory_note |-> p.memory_note]

ErrorPayload(op, message) == [op |-> op, error |-> message]
Raised(op, exception) == [op |-> op, raised |-> exception]

\* lines 134-140
ConversationDoc(oid, character_id) ==
    [_id |-> oid, participants |-> <<<<"player">>, character_id>>, messages |-> <<>>,
     context |-> EmptyMap, summary |-> ""]

\* the conversation with the two ids in place of its message ids
PushMessagesReplacing(conversation, player_oid, character_oid) ==
    [conversation EXCEPT !.messages = <<player_oid, character_oid>>]

\* lines 274-277: $push with $each
PushMessages(conversation, player_oid, character_oid) ==
    [conversation EXCEPT !.messages = @ \o <<player_oid, character_oid>>]

\* the coroutine _update_conversation_summary(conversation_id) before its first step
SummaryTask(conversation_id) ==
    [conversation_id |-> conversation_id, pc |-> "scheduled", summary |-> LLMNone]

\* the refresh never scheduled
ScheduleSummaryForgotten(tasks, conversation_id) == tasks

\* line 280: asyncio.create_task
ScheduleSummary(tasks, conversation_id) == Append(tasks, SummaryTask(conversation_id))

\* the ObjectIds one interact() may need: a conversation and two messages
OidsLeft == MaxOid + 1 - next_oid

\* lines 123-147: the two lookups, the conversation created when none is given,
\* the prompt built and the generation request sent
InteractBegin(character_id, text, conversation_id) ==
    /\ Idle
    /\ OidsLeft >= 3
    /\ CASE ~Exists(characters, character_id) ->
              /\ result' = ErrorPayload("interact", "Character not found.")
              /\ UNCHANGED <<conversations, next_oid, call>>
         [] Exists(characters, character_id) /\ conversation_id # None
            /\ ~IsValidObjectId(conversation_id) ->
              /\ result' = Raised("interact", "InvalidId")
              /\ UNCHANGED <<conversations, next_oid, call>>
         [] Exists(characters, character_id) /\ conversation_id # None
            /\ IsValidObjectId(conversation_id)
            /\ ~Exists(conversations, ObjectIdOf(conversation_id)) ->
              /\ result' = ErrorPayload("interact", "Conversation not found.")
              /\ UNCHANGED <<conversations, next_oid, call>>
         [] Exists(characters, character_id) /\ conversation_id # None
            /\ IsValidObjectId(conversation_id)
            /\ Exists(conversations, ObjectIdOf(conversation_id)) ->
              /\ call' = [op |-> "interact", pc |-> "llm",
                          character |-> FindOne(characters, character_id),
                          character_id |-> character_id, text |-> text,
                          conversation_id |-> conversation_id, created |-> FALSE]
              /\ UNCHANGED <<conversations, next_oid, result>>
         [] Exists(characters, character_id) /\ conversation_id = None ->
              /\ conversations' = Append(conversations, ConversationDoc(next_oid, character_id))
              /\ next_oid' = next_oid + 1
              /\ call' = [op |-> "interact", pc |-> "llm",
                          character |-> FindOne(characters, character_id),
                          character_id |-> character_id, text |-> text,
                          conversation_id |-> ObjectIdStr(next_oid), created |-> TRUE]
              /\ result' = result
    /\ UNCHANGED <<attribute_pools, characters, relationships, messages, summary_tasks, season>>

\* a failure of the speech synthesis swallowed
SynthesizedSwallowingFailure(tts_fails, envelope) == envelope

\* line 292: tts_handler.synthesize is called outside any try, after the writes
Synthesized(tts_fails, envelope) ==
    IF tts_fails THEN Raised("interact", "TTSError") ELSE envelope

\* lines 207-309: the response arrives; tts_fails: tts_handler.synthesize raises
InteractResume(resp, tts_fails) ==
    /\ call.op = "interact" /\ call.pc = "llm"
    /\ call' = NoCall
    /\ CASE ~Truthy(resp) ->
              /\ result' = ErrorPayload("interact", "Failed to get response from LLM.")
              /\ UNCHANGED <<characters, conversations, messages, next_oid, summary_tasks>>
         [] Truthy(resp) /\ resp.kind = "list" ->
              \* line 234: a list has no .get
              /\ result' = Raised("interact", "AttributeError")
              /\ UNCHANGED <<characters, conversations, messages, next_oid, summary_tasks>>
         [] Truthy(resp) /\ resp.kind \in {"str", "dict"} ->
              LET r == IF resp.kind = "str" THEN StringFallback(call.character, resp.text)
                       ELSE resp.dict
                  p == Processed(call.character, r)
                  conv == ObjectIdOf(call.conversation_id)
              IN  /\ messages' = messages
                        \o <<PlayerMessageDoc(next_oid, call.conversation_id, call.text),
                             CharacterMessageDoc(next_oid + 1, call.conversation_id,
                                                 call.character_id, p)>>
                  /\ next_oid' = next_oid + 2
                  /\ conversations' = UpdateOne(conversations, conv,
                        PushMessages(FindOne(conversations, conv), next_oid, next_oid + 1))
                  /\ summary_tasks' = ScheduleSummary(summary_tasks, call.conversation_id)
                  /\ characters' = UpdateOne(characters, call.character_id,
                        CharacterUpdates(p, FindOne(characters, call.character_id)))
                  /\ result' = Synthesized(tts_fails, InteractEnvelope(call.conversation_id, p))
    /\ UNCHANGED <<attribute_pools, relationships, season>>

(***************************************************************************)
(* CharacterEngine.observe_character, lines 351-432: the director looks at *)
(* one character.  One step up to the generation request, one from its     *)
(* answer.                                                                 *)
(***************************************************************************)
ObservationTypes == {"general"}
ObservationContexts == {"alone by the pool"}

\* what the observation request is tried with
ObservationObjects ==
    { [observation |-> "She paces.", character_state |-> "restless",
       director_insights |-> <<"She hides something.">>,
       suggested_actions |-> <<"Send a rival.">>],
      [observation |-> "She paces.", character_state |-> "restless",
       director_insights |-> <<>>],
      [character_state |-> "restless"] }

ObservationResponses == CommonResponses \cup {LLMDict(d) : d \in ObservationObjects}

\* lines 401-407: a text answer wrapped, the format note dropped
ObservationFallbackWithoutNote(text) ==
    [observation |-> text, character_state |-> "unknown",
     director_insights |-> <<>>, suggested_actions |-> <<>>]

\* lines 401-407: a text answer wrapped as the minimal observation
ObservationFallback(text) ==
    [observation |-> text, character_state |-> "unknown",
     director_insights |-> <<"Character state unclear due to response format error.">>,
     suggested_actions |-> <<>>]

\* lines 417-420 and 427-430: the four fields read with their defaults
ObservationData(r) ==
    [observation |-> Get(r, "observation", ""),
     character_state |-> Get(r, "character_state", "unknown"),
     director_insights |-> Get(r, "director_insights", <<>>),
     suggested_actions |-> Get(r, "suggested_actions", <<>>)]

\* lines 410-422; insert_one gives the document its _id
ObservationDoc(oid, character_id, observation_type, context, r) ==
    [_id |-> oid, observer |-> "DIRECTOR", character_id |-> character_id,
     observation_type |-> observation_type, context |-> context,
     observation_data |-> ObservationData(r)]

\* the observation written twice
LogObservationTwice(msgs, doc) == msgs \o <<doc, doc>>

\* the observation written over the message inserted last
LogObservationOverLast(msgs, doc) ==
    IF msgs = <<>> THEN <<doc>> ELSE [msgs EXCEPT ![Len(msgs)] = doc]

\* line 423: messages_collection.insert_one
LogObservation(msgs, doc) == Append(msgs, doc)

\* lines 426-432
ObservationPayload(character, r) ==
    [op |-> "observe_character",
     observation |-> ObservationData(r).observation,
     character_state |-> ObservationData(r).character_state,
     director_insights |-> ObservationData(r).director_insights,
     suggested_actions |-> ObservationData(r).suggested_actions,
     character_name |-> character.name]

\* the observations logged in the messages collection
Observations == {i \in DOMAIN messages : "observer" \in DOMAIN messages[i]}

\* lines 356-395: the lookup, the prompt read from the store, the request sent
ObserveCharacterBegin(character_id, observation_type, context) ==
    /\ Idle
    /\ OidsLeft >= 1
    /\ Cardinality(Observations) < MaxObservations
    /\ IF ~Exists(characters, character_id)
       THEN /\ result' = ErrorPayload("observe_character", "Character not found.")
            /\ call' = call
       ELSE /\ call' = [op |-> "observe_character", pc |-> "llm",
                        character |-> FindOne(characters, character_id),
                        character_id |-> character_id,
                        observation_type |-> observation_type,
                        context |-> context]
            /\ result' = result
    /\ UNCHANGED <<attribute_pools, store, next_oid, summary_tasks, season>>

\* lines 397-432: the answer arrives
ObserveCharacterResume(resp) ==
    /\ call.op = "observe_character" /\ call.pc = "llm"
    /\ call' = NoCall
    /\ CASE ~Truthy(resp) ->
              /\ result' = ErrorPayload("observe_character",
                                        "Failed to generate observation.")
              /\ UNCHANGED <<messages, next_oid>>
         [] Truthy(resp) /\ resp.kind = "list" ->
              \* line 417: a list has no .get
              /\ result' = Raised("observe_character", "AttributeError")
              /\ UNCHANGED <<messages, next_oid>>
         [] Truthy(resp) /\ resp.kind \in {"str", "dict"} ->
              LET r == IF resp.kind = "str" THEN ObservationFallback(resp.text)
                       ELSE resp.dict
              IN  /\ messages' = LogObservation(messages,
                        ObservationDoc(next_oid, call.character_id,
                                       call.observation_type, call.context, r))
                  /\ next_oid' = next_oid + 1
                  /\ result' = ObservationPayload(call.character, r)
    /\ UNCHANGED <<attribute_pools, characters, relationships, conversations,
                   summary_tasks, season>>

(***************************************************************************)
(* LLMHandler.retrieve_context, llm_handler.py lines 199-276.  The value   *)
(* of "ranked_indices" is whatever JSON the service wrote there; JSON      *)
(* values carry their Python type.                                         *)
(***************************************************************************)
JInt(n) == [type |-> "int", value |-> n]
\* the float n + 0.5
JFloat(n) == [type |-> "float", value |-> n]
JStr(text) == [type |-> "str", text |-> text]
JNull == [type |-> "null"]
JList(elements) == [type |-> "list", elements |-> elements]
\* an object, by its keys in order
JObject(keys) == [type |-> "object", keys |-> keys]

\* seq[:k] of Python: the first k elements, all but the last -k when k < 0
PySliceTo(seq, k) ==
    LET stop == IF k >= 0 THEN (IF k < Len(seq) THEN k ELSE Len(seq))
                ELSE (IF Len(seq) + k > 0 THEN Len(seq) + k ELSE 0)
    IN  SubSeq(seq, 1, stop)

\* lines 270-271 and 275-276: context_data[:min(top_k, len(context_data))]
Fallback(context_data, top_k) ==
    PySliceTo(context_data, IF top_k < Len(context_data) THEN top_k ELSE Len(context_data))

\* `for i in indices`: a list gives its elements, a str its characters, an
\* object its keys
Iterated(indices) ==
    CASE indices.type = "list" -> indices.elements
      [] indices.type = "str" ->
            [i \in 1..Len(indices.text) |-> JStr(SubSeq(indices.text, i, i))]
      [] indices.type = "object" ->
            [i \in DOMAIN indices.keys |-> JStr(indices.keys[i])]

\* `0 <= i < len(context_data)`, for a number i
InRange(i, context_data) == 0 <= i.value /\ i.value < Len(context_data)

\* lines 260-266 with the cut taken before the range filter
RankedCutFirst(context_data, top_k, indices) ==
    LET elements == PySliceTo(Iterated(indices), top_k)
        valid_indices == SelectSeq(elements, LAMBDA i : InRange(i, context_data))
    IN  IF \E n \in DOMAIN valid_indices : valid_indices[n].type # "int"
        THEN [raised |-> "TypeError"]
        ELSE [result |-> [n \in DOMAIN valid_indices |->
                             context_data[valid_indices[n].value + 1]]]

\* lines 260-266: the indices filtered to the range, cut to top_k and applied;
\* context_data[i] raises TypeError for a float
Ranked(context_data, top_k, indices) ==
    LET elements == Iterated(indices)
        valid_indices == SelectSeq(elements, LAMBDA i : InRange(i, context_data))
        taken == PySliceTo(valid_indices, top_k)
    IN  IF \E n \in DOMAIN taken : taken[n].type # "int"
        THEN [raised |-> "TypeError"]
        ELSE [result |-> [n \in DOMAIN taken |-> context_data[taken[n].value + 1]]]

\* lines 254-276: what retrieve_context returns once get_response has answered
Retrieved(context_data, top_k, response) ==
    IF response.kind = "dict" /\ "ranked_indices" \in DOMAIN response.dict
    THEN LET indices == response.dict.ranked_indices
         IN  IF \* TypeError: not iterable, or an element that is no number
                \/ indices.type \notin {"list", "str", "object"}
                \/ \E n \in DOMAIN Iterated(indices) :
                        Iterated(indices)[n].type \notin {"int", "float"}
             THEN Fallback(context_data, top_k)
             ELSE LET ranked == Ranked(context_data, top_k, indices)
                  IN  IF "raised" \in DOMAIN ranked
                      THEN Fallback(context_data, top_k)
                      ELSE ranked.result
    ELSE Fallback(context_data, top_k)

\* lines 215-255: nothing to rank, or the ranking request sent
RetrieveContextBegin ==
    /\ call.op = "retrieve_context" /\ call.pc = "called"
    /\ IF call.context_data = <<>>
       THEN /\ call' = NoCall
            /\ result' = [op |-> "retrieve_context", context_data |-> <<>>,
                          top_k |-> call.top_k, requested |-> FALSE,
                          returned |-> <<>>]
       ELSE /\ call' = [call EXCEPT !.pc = "llm"]
            /\ result' = result
    /\ UNCHANGED <<attribute_pools, store, next_oid, summary_tasks, season>>

\* lines 256-276: the answer arrives
RetrieveContextResume(response) ==
    /\ call.op = "retrieve_context" /\ call.pc = "llm"
    /\ call' = NoCall
    /\ result' = [op |-> "retrieve_context", context_data |-> call.context_data,
                  top_k |-> call.top_k, requested |-> TRUE, response |-> response,
                  returned |-> Retrieved(call.context_data, call.top_k, response)]
    /\ UNCHANGED <<attribute_pools, store, next_oid, summary_tasks, season>>

(***************************************************************************)
(* LLMHandler.get_response and _extract_json, llm_handler.py lines 29-112, *)
(* on the text of the service's answer.                                    *)
(***************************************************************************)
\* the fence of a code block: three grave accents, written with apostrophes
\* because a TLA+ string cannot hold a grave accent
Fence == "'''"
IsSpace(c) == c \in {" ", "\n", "\t"}

\* the first position from `from` on where pattern starts in text, 0 if none
IndexOf(text, pattern, from) ==
    LET starts == {i \in from..(Len(text) - Len(pattern) + 1) :
                      SubSeq(text, i, i + Len(pattern) - 1) = pattern}
    IN  IF starts = {} THEN 0 ELSE CHOOSE i \in starts : \A j \in starts : i <= j

\* the first position from `from` on that holds no white space, Len + 1 if none
SkipSpace(text, from) ==
    LET rest == {i \in from..Len(text) : ~IsSpace(SubSeq(text, i, i))}
    IN  IF rest = {} THEN Len(text) + 1
        ELSE CHOOSE i \in rest : \A j \in rest : i <= j

\* text[from..to] without the white space at its end
StripRight(text, from, to) ==
    LET kept == {i \in from..to : ~IsSpace(SubSeq(text, i, i))}
    IN  IF kept = {} THEN ""
        ELSE SubSeq(text, from, CHOOSE i \in kept : \A j \in kept : j <= i)

\* the text handed to the parser as it came, fences and all
ExtractJsonWholeText(text) == text

\* lines 100-112: the first match of re.findall for an opening fence, an
\* optional "json", white space, the shortest text, white space and a closing
\* fence; the text itself when the pattern does not match
ExtractJson(text) ==
    LET open == IndexOf(text, Fence, 1)
        tagged == /\ open # 0
                  /\ open + 6 <= Len(text)
                  /\ SubSeq(text, open + 3, open + 6) = "json"
        start == SkipSpace(text, IF tagged THEN open + 7 ELSE open + 3)
        close == IF open = 0 THEN 0 ELSE IndexOf(text, Fence, start)
    IN  IF open = 0 \/ close = 0 THEN text
        ELSE StripRight(text, start, close - 1)

\* json.loads on the JSON texts the answers are made of; any other text
\* raises JSONDecodeError
JsonValues ==
    ("{\"dialogue\": \"Hi!\"}" :> LLMDict([dialogue |-> "Hi!"]))
    @@ ("[1]" :> LLMList(1))
    @@ ("\"Hi!\"" :> LLMText("Hi!"))
    @@ ("7" :> [kind |-> "int", value |-> 7])
    @@ ("null" :> LLMNone)

\* json.loads: the white space around the value is skipped
JsonLoads(text) ==
    LET stripped == StripRight(text, SkipSpace(text, 1), Len(text))
    IN  IF stripped \in DOMAIN JsonValues THEN [value |-> JsonValues[stripped]]
        ELSE [raised |-> "JSONDecodeError"]

\* lines 78-96: what get_response returns for the content of an answer
Parsed(content, json_format) ==
    IF json_format
    THEN LET extracted == ExtractJson(content)
             loaded == JsonLoads(extracted)
         IN  IF "value" \in DOMAIN loaded THEN loaded.value
             ELSE LLMText(extracted)
    ELSE LLMText(content)

\* lines 43-72: the request built and sent
GetResponseBegin ==
    /\ call.op = "get_response" /\ call.pc = "called"
    /\ call' = [call EXCEPT !.pc = "chat"]
    /\ UNCHANGED <<attribute_pools, store, next_oid, summary_tasks, season, result>>

\* lines 73-98: client.chat returns an answer, returns one without a message,
\* or raises; every exception is caught at line 96
GetResponseResume(outcome) ==
    /\ call.op = "get_response" /\ call.pc = "chat"
    /\ call' = NoCall
    /\ result' = [op |-> "get_response", json_format |-> call.json_format,
                  outcome |-> outcome,
                  returned |-> IF outcome.kind = "answer"
                               THEN Parsed(outcome.content, call.json_format)
                               ELSE LLMNone]
    /\ UNCHANGED <<attribute_pools, store, next_oid, summary_tasks, season>>

(***************************************************************************)
(* CharacterEngine._update_conversation_summary, lines 311-349: the task   *)
(* interact() creates.  It runs on the event loop beside the other calls:  *)
(* one step up to the summarization request, one step from its answer.     *)
(***************************************************************************)
\* what summarize_conversation(json_format=True) is tried with
SummaryObjects ==
    { [summary |-> "They greeted each other.", key_points |-> <<"a greeting">>,
       sentiment |-> "positive"],
      [key_points |-> <<>>, sentiment |-> "neutral"] }

SummaryResponses ==
    {LLMNone, LLMText("They greeted each other."), LLMList(1)}
    \cup {LLMDict(d) : d \in SummaryObjects}

\* lines 316-318: the positions of the messages of the conversation
MessagesOf(conversation_id) ==
    {i \in DOMAIN messages :
        /\ "conversation_id" \in DOMAIN messages[i]
        /\ messages[i].conversation_id = conversation_id}

\* the refresh that empties the summary when the request fails
SummaryAppliedClearingOnFailure(conversation, summary) ==
    IF ~Truthy(summary) THEN [conversation EXCEPT !.summary = ""]
    ELSE IF summary.kind # "dict" THEN conversation
    ELSE [conversation EXCEPT
            !.summary = Get(summary.dict, "summary", ""),
            !.context = MapSet(@, "summary_data", summary.dict)]

\* lines 338-349: the conversation after the answer of the summarization
SummaryApplied(conversation, summary) ==
    IF ~Truthy(summary) \/ summary.kind # "dict" THEN conversation
    ELSE [conversation EXCEPT
            !.summary = Get(summary.dict, "summary", ""),
            !.context = MapSet(@, "summary_data", summary.dict)]

\* lines 315-336: the messages read, and the summarization request sent; tasks
\* start in the order of their creation
UpdateConversationSummaryBegin ==
    /\ \E i \in {k \in DOMAIN summary_tasks :
                    /\ summary_tasks[k].pc = "scheduled"
                    /\ \A j \in 1..(k - 1) : summary_tasks[j].pc # "scheduled"} :
          summary_tasks' =
            [summary_tasks EXCEPT
                ![i].pc = IF MessagesOf(summary_tasks[i].conversation_id) = {}
                          THEN "done" ELSE "llm"]
    /\ UNCHANGED <<attribute_pools, store, next_oid, season, call, result>>

\* lines 338-349: the answer arrives
UpdateConversationSummaryResume(i, summary) ==
    /\ i \in DOMAIN summary_tasks
    /\ summary_tasks[i].pc = "llm"
    /\ summary_tasks' = [summary_tasks EXCEPT ![i].pc = "done", ![i].summary = summary]
    /\ LET conv == ObjectIdOf(summary_tasks[i].conversation_id)
       IN  conversations' =
             IF Exists(conversations, conv)
             THEN UpdateOne(conversations, conv,
                            SummaryApplied(FindOne(conversations, conv), summary))
             ELSE conversations
    /\ UNCHANGED <<attribute_pools, characters, relationships, messages, next_oid,
                   season, call, result>>

(***************************************************************************)
(* GameLoop.manage_history, game_loop.py lines 280-312: one step up to the *)
(* summarization request, one from its answer.                             *)
(***************************************************************************)
\* line 286: a summary is due every 20 messages
SummaryEvery == 20

\* the due test without its positivity half
IsSummaryDueAtZero(message_count) == message_count % SummaryEvery = 0

\* line 286
IsSummaryDue(message_count) ==
    message_count > 0 /\ message_count % SummaryEvery = 0

\* a stored _id, always an ObjectId, against the str manage_history filters
\* with: BSON values of different types are never equal
ObjectIdEqualsStr(oid, conversation_id) == FALSE

\* lines 297-305 and 308-311: the fields $set from the answer
HistorySummaryApplied(conversation, summary_data) ==
    IF summary_data.kind = "dict"
    THEN MapSet(MapSet(MapSet(MapSet(conversation,
            "summary", Get(summary_data.dict, "summary", "")),
            "summary_data", summary_data.dict),
            "key_points", Get(summary_data.dict, "key_points", <<>>)),
            "sentiment", Get(summary_data.dict, "sentiment", "neutral"))
    ELSE MapSet(conversation, "summary",
                IF summary_data.kind = "str" THEN summary_data.text ELSE summary_data)

\* lines 284-292: the messages counted, and the request sent when one is due
ManageHistoryBegin(conversation_id) ==
    /\ Idle
    /\ LET message_count == Cardinality(MessagesOf(conversation_id))
       IN  IF IsSummaryDue(message_count)
           THEN /\ call' = [op |-> "manage_history", pc |-> "llm",
                            conversation_id |-> conversation_id,
                            message_count |-> message_count]
                /\ result' = result
           ELSE /\ result' = [op |-> "manage_history",
                              conversation_id |-> conversation_id]
                /\ call' = call
    /\ UNCHANGED <<attribute_pools, store, next_oid, summary_tasks, season>>

\* lines 294-312: the answer arrives
ManageHistoryResume(summary_data) ==
    /\ call.op = "manage_history" /\ call.pc = "llm"
    /\ call' = NoCall
    /\ result' = [op |-> "manage_history", conversation_id |-> call.conversation_id]
    /\ conversations' =
         IF Truthy(summary_data)
         THEN [i \in DOMAIN conversations |->
                 IF ObjectIdEqualsStr(conversations[i]._id, call.conversation_id)
                 THEN HistorySummaryApplied(conversations[i], summary_data)
                 ELSE conversations[i]]
         ELSE conversations
    /\ UNCHANGED <<attribute_pools, characters, relationships, messages, next_oid,
                   summary_tasks, season>>

(***************************************************************************)
(* GameLoop.start, start_story, progress_story and stop.                   *)
(***************************************************************************)
\* the conversation_id strings of the narrative messages
SystemSeasonStart == <<"text", 1>>
SystemStoryProgress == <<"text", 2>>

DirectorChoices == {"Send two contestants on a date"}

\* lines 21-27
Start ==
    /\ Idle
    /\ is_running' = TRUE
    /\ ended' = FALSE
    /\ result' = [op |-> "start"]
    /\ UNCHANGED <<attribute_pools, store, next_oid, summary_tasks, game_state, call>>

\* lines 314-316
Stop ==
    /\ Idle
    /\ is_running' = FALSE
    /\ result' = [op |-> "stop"]
    /\ UNCHANGED <<attribute_pools, store, next_oid, summary_tasks, game_state, call, ended>>

\* s repeated n times
RECURSIVE Repeat(_, _)
Repeat(s, n) == IF n = 0 THEN "" ELSE s \o Repeat(s, n - 1)

\* sep.join(parts)
RECURSIVE Join(_, _)
Join(parts, sep) ==
    IF parts = <<>> THEN ""
    ELSE IF Len(parts) = 1 THEN parts[1]
    ELSE parts[1] \o sep \o Join(Tail(parts), sep)

\* the premieres start_story() is tried with: a narration of 720 characters
PremiereObjects ==
    { [title |-> "Welcome to Voice Island",
       dialogue |-> <<[speaker |-> "Narrator", line |-> Repeat("The villa awaits. ", 40)]>>,
       choices |-> <<"Start a challenge", "Host a party">>] }

PremiereResponses ==
    {LLMNone, LLMText("Once upon a time")}
    \cup {LLMDict(d) : d \in PremiereObjects}

\* lines 121-126: the premiere as one markdown log
PremiereLog(title, dialogue_list) ==
    Join(<<"# " \o title \o "\n">>
         \o [i \in DOMAIN dialogue_list |->
                "**" \o Get(dialogue_list[i], "speaker", "Unknown") \o "**: "
                     \o Get(dialogue_list[i], "line", "")],
         "\n")

\* the premiere message logged without its choices
PremiereMessageDocNoChoices(oid, content, choices) ==
    [_id |-> oid, conversation_id |-> SystemSeasonStart, speaker_type |-> "system",
     speaker_id |-> <<"NARRATOR">>, content |-> content, choices |-> <<>>,
     emotion |-> "dramatic", director_control |-> TRUE, is_game_over |-> FALSE]

\* lines 129-139 and 147-157
PremiereMessageDoc(oid, content, choices) ==
    [_id |-> oid, conversation_id |-> SystemSeasonStart, speaker_type |-> "system",
     speaker_id |-> <<"NARRATOR">>, content |-> content, choices |-> choices,
     emotion |-> "dramatic", director_control |-> TRUE, is_game_over |-> FALSE]

\* start_story() without the check of the cast
StartStoryBeginUnchecked ==
    /\ Idle
    /\ OidsLeft >= 1
    /\ ended' = FALSE
    /\ call' = [op |-> "start_story", pc |-> "llm"]
    /\ result' = result
    /\ UNCHANGED <<attribute_pools, store, next_oid, summary_tasks, is_running, game_state>>

\* lines 29-112: no cast, or the premiere prompt sent
StartStoryBegin ==
    /\ Idle
    /\ OidsLeft >= 1
    /\ ended' = FALSE
    /\ IF characters = <<>>
       THEN /\ result' = [op |-> "start_story",
                          error |-> "Cannot start the season premiere without any contestants.",
                          choices |-> <<>>]
            /\ call' = call
       ELSE /\ call' = [op |-> "start_story", pc |-> "llm"]
            /\ result' = result
    /\ UNCHANGED <<attribute_pools, store, next_oid, summary_tasks, is_running, game_state>>

\* lines 113-159
StartStoryResume(resp) ==
    /\ call.op = "start_story" /\ call.pc = "llm"
    /\ call' = NoCall
    /\ next_oid' = next_oid + 1
    /\ IF resp.kind = "dict"
       THEN LET title == Get(resp.dict, "title", "The Premiere")
                dialogue_list == Get(resp.dict, "dialogue", <<>>)
                choices == Get(resp.dict, "choices", <<>>)
            IN  /\ messages' = Append(messages,
                        PremiereMessageDoc(next_oid, PremiereLog(title, dialogue_list), choices))
                /\ result' = [op |-> "start_story", title |-> title,
                              dialogue |-> dialogue_list, choices |-> choices,
                              is_game_over |-> FALSE]
       ELSE LET dialogue ==
                    \* str(response_data) of line 143; "[...]" stands for the
                    \* repr of a list
                    IF Truthy(resp)
                    THEN (IF resp.kind = "str" THEN resp.text ELSE "[...]")
                    ELSE "Error: The AI narrator provided an invalid response. Please try again."
            IN  /\ messages' = Append(messages, PremiereMessageDoc(next_oid, dialogue, <<>>))
                /\ result' = [op |-> "start_story", dialogue |-> dialogue,
                              choices |-> <<>>, is_game_over |-> FALSE]
    /\ UNCHANGED <<attribute_pools, characters, relationships, conversations,
                   summary_tasks, season>>

\* the scenes progress_story() is tried with
SceneObjects ==
    { [scene |-> <<[speaker |-> "Narrator", line |-> "Tension rises.", emotion |-> "smug"]>>,
       choices |-> <<"Reveal a secret">>],
      [scene |-> <<[speaker |-> "Narrator", line |-> "The season is over."]>>,
       choices |-> <<>>, is_game_over |-> TRUE] }

SceneResponses == {LLMNone} \cup {LLMDict(d) : d \in SceneObjects}

\* lines 231-239: the scene as one log, a line per message
RECURSIVE SceneLog(_)
SceneLog(scene) ==
    IF scene = <<>> THEN ""
    ELSE LET speaker == Get(Head(scene), "speaker", "Unknown")
             line == Get(Head(scene), "line", "")
             emotion == Get(Head(scene), "emotion", "")
         IN  (IF emotion # ""
              THEN "**" \o speaker \o "** (*" \o emotion \o "*): " \o line \o "\n"
              ELSE "**" \o speaker \o "**: " \o line \o "\n")
             \o SceneLog(Tail(scene))

\* the response read without its is_game_over flag
SceneOutcomeNeverOver(resp) ==
    IF resp.kind = "dict"
    THEN [dialogue |-> SceneLog(Get(resp.dict, "scene", <<>>)),
          choices |-> Get(resp.dict, "choices", <<>>),
          is_game_over |-> FALSE]
    ELSE [dialogue |-> "Error: The AI writer provided an invalid response. Please try again.",
          choices |-> <<>>,
          is_game_over |-> FALSE]

\* lines 226-243: what is read from the response
SceneOutcome(resp) ==
    IF resp.kind = "dict"
    THEN [dialogue |-> SceneLog(Get(resp.dict, "scene", <<>>)),
          choices |-> Get(resp.dict, "choices", <<>>),
          is_game_over |-> Get(resp.dict, "is_game_over", FALSE)]
    ELSE [dialogue |-> "Error: The AI writer provided an invalid response. Please try again.",
          choices |-> <<>>,
          is_game_over |-> FALSE]

\* lines 248-258
ProgressMessageDoc(oid, outcome, director_choice) ==
    [_id |-> oid, conversation_id |-> SystemStoryProgress, speaker_type |-> "system",
     speaker_id |-> <<"NARRATOR">>, content |-> outcome.dialogue,
     choices |-> outcome.choices, emotion |-> "dramatic", director_control |-> TRUE,
     triggering_choice |-> director_choice]

\* lines 172-175: the positions of the director-control messages
NarrativeBlocks ==
    {i \in DOMAIN messages :
        /\ "director_control" \in DOMAIN messages[i]
        /\ messages[i].director_control
        /\ messages[i].speaker_type = "system"}

\* sort=[("timestamp", -1)]: the message inserted last comes first
Latest(positions) == CHOOSE i \in positions : \A j \in positions : j <= i

\* line 179
ContextChars == 700

\* content[:700], the head of the content instead of its tail
LastCharsFromTheFront(content) ==
    IF Len(content) <= ContextChars THEN content
    ELSE SubSeq(content, 1, ContextChars)

\* line 179: content[-700:]
LastChars(content) ==
    IF Len(content) <= ContextChars THEN content
    ELSE SubSeq(content, Len(content) - ContextChars + 1, Len(content))

\* lines 177-182: the continuity context of the progression prompt
StoryContext ==
    IF NarrativeBlocks # {} /\ "content" \in DOMAIN messages[Latest(NarrativeBlocks)]
    THEN "The story so far:\n..."
            \o LastChars(messages[Latest(NarrativeBlocks)].content) \o "\n"
    ELSE ""

\* lines 161-223: no cast, or the progression prompt sent
ProgressStoryBegin(director_choice) ==
    /\ Idle
    /\ OidsLeft >= 1
    /\ IF characters = <<>>
       THEN /\ result' = [op |-> "progress_story",
                          dialogue |-> "Cannot progress the story without any contestants.",
                          choices |-> <<>>]
            /\ call' = call
       ELSE /\ call' = [op |-> "progress_story", pc |-> "llm",
                        director_choice |-> director_choice,
                        story_context |-> StoryContext]
            /\ result' = result
    /\ UNCHANGED <<attribute_pools, store, next_oid, summary_tasks, season>>

\* lines 224-260
ProgressStoryResume(resp) ==
    /\ call.op = "progress_story" /\ call.pc = "llm"
    /\ call' = NoCall
    /\ LET outcome == SceneOutcome(resp)
       IN  /\ is_running' = IF outcome.is_game_over THEN FALSE ELSE is_running
           /\ ended' = (ended \/ outcome.is_game_over)
           /\ messages' = Append(messages,
                                 ProgressMessageDoc(next_oid, outcome, call.director_choice))
           /\ next_oid' = next_oid + 1
           /\ result' = [op |-> "progress_story", dialogue |-> outcome.dialogue,
                         choices |-> outcome.choices, is_game_over |-> outcome.is_game_over]
    /\ UNCHANGED <<attribute_pools, characters, relationships, conversations,
                   summary_tasks, game_state>>

(***************************************************************************)
(* GameLoop.get_latest_story_segment, lines 262-278.                       *)
(***************************************************************************)
\* lines 266-269: the positions the filter {"director_control": True} keeps
DirectorControlled(msgs) ==
    {i \in DOMAIN msgs :
        "director_control" \in DOMAIN msgs[i] /\ msgs[i].director_control}

\* the segment read from the oldest director-control message
OldestStorySegment(msgs) ==
    IF DirectorControlled(msgs) = {}
    THEN [dialogue |-> "The story hasn't started yet.", choices |-> <<>>,
          is_game_over |-> FALSE]
    ELSE LET latest_segment ==
                msgs[CHOOSE i \in DirectorControlled(msgs) :
                        \A j \in DirectorControlled(msgs) : i <= j]
         IN  [dialogue |-> Get(latest_segment, "content", ""),
              choices |-> Get(latest_segment, "choices", <<>>),
              is_game_over |-> Get(latest_segment, "is_game_over", FALSE)]

\* lines 271-278
LatestStorySegment(msgs) ==
    IF DirectorControlled(msgs) = {}
    THEN [dialogue |-> "The story hasn't started yet.", choices |-> <<>>,
          is_game_over |-> FALSE]
    ELSE LET latest_segment == msgs[Latest(DirectorControlled(msgs))]
         IN  [dialogue |-> Get(latest_segment, "content", ""),
              choices |-> Get(latest_segment, "choices", <<>>),
              is_game_over |-> Get(latest_segment, "is_game_over", FALSE)]

GetLatestStorySegment ==
    /\ Idle
    /\ result' = [op |-> "get_latest_story_segment",
                  segment |-> LatestStorySegment(messages)]
    /\ UNCHANGED <<attribute_pools, store, next_oid, summary_tasks, season, call>>

(***************************************************************************)
(* GameLoop.end_game, lines 318-328.                                       *)
(***************************************************************************)
\* end_game() without the clearing of the relationships collection
ClearSeasonButRelationships ==
    /\ messages' = <<>>
    /\ conversations' = <<>>
    /\ characters' = <<>>
    /\ relationships' = relationships
    /\ is_running' = FALSE

\* lines 322-328: the four delete_many calls and the flag
ClearSeason ==
    /\ messages' = <<>>
    /\ conversations' = <<>>
    /\ characters' = <<>>
    /\ relationships' = <<>>
    /\ is_running' = FALSE

EndGame ==
    /\ Idle
    /\ ClearSeason
    /\ result' = [op |-> "end_game"]
    /\ UNCHANGED <<attribute_pools, next_oid, summary_tasks, game_state, call, ended>>

(***************************************************************************)
(* The transport, web/app.py: the handlers of the director's events.       *)
(***************************************************************************)
\* lines 151-160: a new GameLoop, started
HandleStartGame ==
    /\ Idle
    /\ IF ~game_state.is_running
       THEN /\ is_running' = TRUE
            /\ ended' = FALSE
            /\ game_state' = [game_loop |-> TRUE, is_running |-> TRUE,
                              status |-> "Season in Progress"]
            /\ result' = [op |-> "handle_start_game", emitted |-> "game_state"]
       ELSE /\ result' = [op |-> "handle_start_game", emitted |-> "nothing"]
            /\ UNCHANGED <<is_running, ended, game_state>>
    /\ UNCHANGED <<attribute_pools, store, next_oid, summary_tasks, call>>

\* the transport state kept when the cleanup failed
ResetUnlessCleanupFailed(state, cleanup_failed) ==
    IF cleanup_failed THEN state
    ELSE [game_loop |-> FALSE, is_running |-> FALSE, status |-> "Idle"]

\* lines 173-176: the reset, after the try
ResetRegardless(state, cleanup_failed) ==
    [game_loop |-> FALSE, is_running |-> FALSE, status |-> "Idle"]

\* lines 162-178: end_game() on the GameLoop held, then the state reset
HandleEndGame ==
    /\ Idle
    /\ IF game_state.is_running
       THEN /\ IF game_state.game_loop
               THEN ClearSeason
               ELSE UNCHANGED <<store, is_running>>
            /\ game_state' = ResetRegardless(game_state, FALSE)
            /\ result' = [op |-> "handle_end_game", emitted |-> "game_state"]
       ELSE /\ result' = [op |-> "handle_end_game", emitted |-> "nothing"]
            /\ UNCHANGED <<store, is_running, game_state>>
    /\ UNCHANGED <<attribute_pools, next_oid, summary_tasks, call, ended>>

\* lines 180-202: progress_story(choice_text) is called without its model
\* argument, so the call raises TypeError before its first line and the handler
\* emits an error
HandleDirectorChoice(choice_given) ==
    /\ Idle
    /\ result' =
        IF ~game_state.is_running \/ ~game_state.game_loop
        THEN [op |-> "handle_director_choice", emitted |-> "error",
              message |-> "No season currently running."]
        ELSE IF ~choice_given
        THEN [op |-> "handle_director_choice", emitted |-> "error",
              message |-> "Missing choice selection."]
        ELSE [op |-> "handle_director_choice", emitted |-> "error",
              message |-> "Director control error: TypeError"]
    /\ UNCHANGED <<attribute_pools, store, next_oid, summary_tasks, season, call>>

\* lines 281-303, the definition in force: start_story() is called without its
\* model argument, so with a cast the call raises TypeError before its first
\* line and the handler emits an error
HandleStartStory ==
    /\ Idle
    /\ result' =
        IF ~game_state.is_running \/ ~game_state.game_loop
        THEN [op |-> "handle_start_story", emitted |-> "error",
              message |-> "No season currently running."]
        ELSE IF Len(characters) = 0
        THEN [op |-> "handle_start_story", emitted |-> "error",
              message |-> "No cast created yet. Please create a cast first."]
        ELSE [op |-> "handle_start_story", emitted |-> "error",
              message |-> "Failed to start story: TypeError"]
    /\ UNCHANGED <<attribute_pools, store, next_oid, summary_tasks, season, call>>

\* lines 71, 87: the guard of the two creation endpoints
SeasonHeld == game_state.is_running /\ game_state.game_loop

\* a response that ends the request before any call on the engine
Refuse(endpoint, status, message) ==
    /\ Idle
    /\ result' = [op |-> endpoint, status |-> status, error |-> message]
    /\ UNCHANGED <<attribute_pools, store, next_oid, summary_tasks, season, call>>

\* lines 69-83: POST /api/characters/create; the 201 response carries what
\* create_character() returns
CreateCharacterEndpoint ==
    IF ~SeasonHeld
    THEN Refuse("create_character_endpoint", 400,
                "Game is not running. Please start the game first.")
    ELSE CreateCharacter

\* a cast of two let through
CastSizesFromTwo == 2..8

\* line 93: 3 <= count <= 8
CastSizes == 3..8

\* lines 85-108: POST /api/characters/create_batch with the count of the request
\* body.  The comparison of line 93 raises TypeError for a string or null, outside
\* the try; a float in the range passes it and range(count) raises inside the
\* try.  Either way the response is a 500.
CreateCharacterBatchEndpoint(count) ==
    IF ~SeasonHeld
    THEN Refuse("create_character_batch_endpoint", 400,
                "No season running. Please start a new season first.")
    ELSE IF count.type \notin {"int", "float"}
    THEN Refuse("create_character_batch_endpoint", 500, "TypeError")
    ELSE IF ~(count.value \in CastSizes
              /\ (count.type = "float" => count.value + 1 \in CastSizes))
    THEN Refuse("create_character_batch_endpoint", 400,
                "Cast size must be between 3 and 8 contestants.")
    ELSE IF count.type = "float"
    THEN Refuse("create_character_batch_endpoint", 500, "Cast creation error: TypeError")
    ELSE CreateCharacters(count.value)

\* lines 162-178 when end_game() raises after `cleared` of its four delete_many
\* calls (game_loop.py lines 323-326, in their order): the GameLoop keeps its
\* flag, the handler logs, emits an error and resets its own state
HandleEndGameRaising(cleared) ==
    /\ Idle
    /\ SeasonHeld
    /\ messages' = IF cleared >= 1 THEN <<>> ELSE messages
    /\ conversations' = IF cleared >= 2 THEN <<>> ELSE conversations
    /\ characters' = IF cleared >= 3 THEN <<>> ELSE characters
    /\ game_state' = ResetRegardless(game_state, TRUE)
    /\ result' = [op |-> "handle_end_game", emitted |-> "error"]
    /\ UNCHANGED <<attribute_pools, relationships, next_oid, summary_tasks, is_running,
                   call, ended>>

(***************************************************************************)
(* The store after construction.                                           *)
(***************************************************************************)
InitWith(pools, chars, rels) ==
    /\ attribute_pools = pools
    /\ characters = chars
    /\ relationships = rels
    /\ conversations = <<>>
    /\ messages = <<>>
    /\ next_oid = 1
    /\ summary_tasks = <<>>
    /\ is_running = FALSE
    /\ game_state = [game_loop |-> FALSE, is_running |-> FALSE, status |-> "Idle"]
    /\ call = NoCall
    /\ result = NoResult
    /\ ended = FALSE

(***************************************************************************)
(* Creation from an empty directory over the seed pools.                   *)
(***************************************************************************)
NextCreate ==
    \/ \E count \in 0..MaxCount :
        Len(characters) + count <= MaxCast /\ CreateCharacters(count)
    \/ Len(characters) < MaxCast /\ CreateCharacter
    \/ DrawCollides
    \/ DrawSucceeds
    \/ EndGame

SpecCreate == InitWith(SeedPools, <<>>, <<>>) /\ [][NextCreate]_vars

(***************************************************************************)
(* Creation over the seed pools from a directory that earlier calls have   *)
(* filled until at most MaxFree ids are free.                              *)
(***************************************************************************)
RECURSIVE SetToSeq(_)
SetToSeq(S) ==
    IF S = {} THEN <<>>
    ELSE LET x == CHOOSE y \in S : TRUE IN <<x>> \o SetToSeq(S \ {x})

\* create_character applied to the draws ds in turn, from the empty directory
RECURSIVE Directory(_)
Directory(ds) ==
    IF ds = <<>> THEN [characters |-> <<>>, relationships |-> <<>>]
    ELSE LET before == Directory(SubSeq(ds, 1, Len(ds) - 1))
         IN  InsertCharacter(before.characters, before.relationships, ds[Len(ds)])

NextExhaust ==
    \/ \E count \in 0..MaxCount : CreateCharacters(count)
    \/ CreateCharacter
    \/ DrawCollides
    \/ DrawSucceeds

SpecExhaust ==
    /\ \E free \in 0..MaxFree :
            LET seed_draws == SetToSeq(Draws(SeedPools))
                dir == Directory(SubSeq(seed_draws, 1, Len(seed_draws) - free))
            IN  InitWith(SeedPools, dir.characters, dir.relationships)
    /\ [][NextExhaust]_vars

(***************************************************************************)
(* The transport's season and its two creation endpoints over the seed     *)
(* pools; end_game() may fail part-way.  The count of a batch request is    *)
(* any JSON value; a cast is created while it stays within MaxCast and no   *)
(* failed cleanup has left records of characters that are gone.            *)
(***************************************************************************)
TransportPools == [SmallPools EXCEPT !.background_pool = <<"explorer", "chef">>]

NoStaleRecords ==
    \A i \in DOMAIN relationships :
        {relationships[i].char1_id, relationships[i].char2_id} \subseteq CharIds(characters)

NextTransport ==
    \/ HandleStartGame
    \/ HandleEndGame
    \/ \E cleared \in 0..3 : HandleEndGameRaising(cleared)
    \/ /\ SeasonHeld => Len(characters) < MaxCast /\ NoStaleRecords
       /\ CreateCharacterEndpoint
    \/ \E count \in {JInt(n) : n \in (0..MaxCount) \cup {8, 9}}
                    \cup {JFloat(2), JFloat(3), JFloat(8), JStr("5"), JNull} :
            /\ (SeasonHeld /\ count.type = "int" /\ count.value \in CastSizes)
                    => Len(characters) + count.value <= MaxCast /\ NoStaleRecords
            /\ CreateCharacterBatchEndpoint(count)
    \/ DrawCollides
    \/ DrawSucceeds

SpecTransport == InitWith(TransportPools, <<>>, <<>>) /\ [][NextTransport]_vars

(***************************************************************************)
(* Conversation turns over a cast drawn from the small pools.              *)
(***************************************************************************)
CharIdInputs == CharIds(characters) \cup {UnknownCharId}
ConversationIdInputs ==
    {None, <<"text", 0>>, UnknownOidStr}
    \cup {ObjectIdStr(conversations[i]._id) : i \in DOMAIN conversations}

NextTalk ==
    \/ CreateCharacter
    \/ DrawCollides
    \/ DrawRaises
    \/ DrawSucceeds
    \/ \E c \in CharIdInputs, t \in PlayerTexts, v \in ConversationIdInputs :
        InteractBegin(c, t, v)
    \/ \E resp \in PendingInteractResponses, tts_fails \in BOOLEAN :
        InteractResume(resp, tts_fails)
    \/ EndGame

SpecTalk == InitWith(SmallPools, <<>>, <<>>) /\ [][NextTalk]_vars

(***************************************************************************)
(* Conversation turns of a cast of two with the summary refreshes they     *)
(* start, and end_game() between them.                                     *)
(***************************************************************************)
InitSummary ==
    LET cast == Directory(SetToSeq(Draws(SmallPools)))
    IN  InitWith(SmallPools, cast.characters, cast.relationships)

NextSummary ==
    \/ \E c \in CharIds(characters), t \in PlayerTexts,
            v \in {None} \cup {ObjectIdStr(conversations[i]._id) : i \in DOMAIN conversations} :
            InteractBegin(c, t, v)
    \/ \E resp \in {LLMNone, LLMText("Well, hello.")} : InteractResume(resp, FALSE)
    \/ UpdateConversationSummaryBegin
    \/ \E i \in DOMAIN summary_tasks, summary \in SummaryResponses :
            UpdateConversationSummaryResume(i, summary)
    \/ EndGame

SpecSummary == InitSummary /\ [][NextSummary]_vars

(***************************************************************************)
(* The season: the GameLoop's calls and the transport's handlers, with     *)
(* creation and conversation turns filling the store.                      *)
(***************************************************************************)
NextSeason ==
    \/ \E t \in PlayerTexts :
            characters # <<>> /\ InteractBegin(characters[1]._id, t, None)
    \/ InteractResume(LLMText("Well, hello."), FALSE)
    \/ Start
    \/ Stop
    \/ Cardinality(NarrativeBlocks) < MaxScenes /\ StartStoryBegin
    \/ \E resp \in PremiereResponses : StartStoryResume(resp)
    \/ \E choice \in DirectorChoices :
            Cardinality(NarrativeBlocks) < MaxScenes /\ ProgressStoryBegin(choice)
    \/ \E resp \in SceneResponses : ProgressStoryResume(resp)
    \/ EndGame
    \/ HandleStartGame
    \/ HandleEndGame
    \/ \E choice_given \in BOOLEAN : HandleDirectorChoice(choice_given)
    \/ HandleStartStory
    \/ GetLatestStorySegment

\* no cast yet, or a cast of two created before the season
SpecSeason ==
    /\ \E cast_size \in {0, 2} :
            LET cast == Directory(SubSeq(SetToSeq(Draws(SmallPools)), 1, cast_size))
            IN  InitWith(SmallPools, cast.characters, cast.relationships)
    /\ [][NextSeason]_vars

(***************************************************************************)
(* The director's observations of a cast of two, between conversation      *)
(* turns and end_game().                                                   *)
(***************************************************************************)
NextObserve ==
    \/ \E t \in PlayerTexts :
            characters # <<>> /\ InteractBegin(characters[1]._id, t, None)
    \/ \E resp \in {LLMNone, LLMText("Well, hello."), LLMList(1)} :
            InteractResume(resp, FALSE)
    \/ \E c \in CharIdInputs, o \in ObservationTypes, x \in ObservationContexts :
            ObserveCharacterBegin(c, o, x)
    \/ \E resp \in ObservationResponses : ObserveCharacterResume(resp)
    \/ EndGame

SpecObserve == InitSummary /\ [][NextObserve]_vars

(***************************************************************************)
(* manage_history() over a conversation of any number of turns with one of *)
(* a cast of two, each turn answered in plain text and each refresh it     *)
(* started answered by a failure.                                          *)
(***************************************************************************)
\* the store after `turns` turns of interact(character, text) on a new conversation
History(character, turns) ==
    LET conversation_id == ObjectIdStr(1)
        p == Processed(character, StringFallback(character, "Well, hello."))
    IN  [conversation |->
            [ConversationDoc(1, character._id) EXCEPT
                !.messages = [i \in 1..(2 * turns) |-> i + 1]],
         messages |->
            [i \in 1..(2 * turns) |->
                IF i % 2 = 1
                THEN PlayerMessageDoc(i + 1, conversation_id, "Hello, how are you today?")
                ELSE CharacterMessageDoc(i + 1, conversation_id, character._id, p)],
         summary_tasks |->
            [i \in 1..turns |->
                [SummaryTask(conversation_id) EXCEPT !.pc = "done"]]]

HistoryIdInputs ==
    {UnknownOidStr} \cup {ObjectIdStr(conversations[i]._id) : i \in DOMAIN conversations}

NextHistory ==
    \/ \E v \in HistoryIdInputs : ManageHistoryBegin(v)
    \/ \E summary_data \in SummaryResponses : ManageHistoryResume(summary_data)

SpecHistory ==
    /\ LET cast == Directory(SetToSeq(Draws(SmallPools)))
        IN  \E k \in DOMAIN cast.characters, turns \in 0..MaxTurns :
                LET history == History(cast.characters[k], turns)
                IN  /\ attribute_pools = SmallPools
                    /\ characters = cast.characters
                    /\ relationships = cast.relationships
                    /\ conversations = <<history.conversation>>
                    /\ messages = history.messages
                    /\ next_oid = 2 * turns + 2
                    /\ summary_tasks = history.summary_tasks
                    /\ is_running = FALSE
                    /\ game_state = [game_loop |-> FALSE, is_running |-> FALSE,
                                     status |-> "Idle"]
                    /\ call = NoCall
                    /\ result = NoResult
                    /\ ended = FALSE
    /\ [][NextHistory]_vars

\* an LLMHandler method called on a new handler, the store empty
InitCalled(called) ==
    /\ attribute_pools = SmallPools
    /\ characters = <<>>
    /\ relationships = <<>>
    /\ conversations = <<>>
    /\ messages = <<>>
    /\ next_oid = 1
    /\ summary_tasks = <<>>
    /\ is_running = FALSE
    /\ game_state = [game_loop |-> FALSE, is_running |-> FALSE, status |-> "Idle"]
    /\ call = called
    /\ result = NoResult
    /\ ended = FALSE

(***************************************************************************)
(* retrieve_context() applied to every list of up to MaxItems items, every *)
(* top_k from -1 to MaxTopK and every answer of the ranking request.       *)
(***************************************************************************)
\* the lists of up to n of the indices an answer may list: below the range,
\* in it, and beyond it
RECURSIVE IndexLists(_)
IndexLists(n) ==
    IF n = 0 THEN {<<>>}
    ELSE IndexLists(n - 1)
         \cup {Append(ns, i) : ns \in {l \in IndexLists(n - 1) : Len(l) = n - 1},
                               i \in {-1, 0, 1, 2, 5}}

RankResponses ==
    LET ranked_indices ==
            {JList([i \in DOMAIN ns |-> JInt(ns[i])]) : ns \in IndexLists(MaxRanked)}
            \cup {JList(<<JInt(0), JFloat(1)>>), JList(<<JFloat(7), JInt(1)>>),
                  JList(<<JStr("1")>>), JList(<<JInt(1), JNull>>),
                  JStr(""), JStr("10"), JInt(2), JNull, JObject(<<>>), JObject(<<"0">>)}
    IN  {LLMNone, LLMText("Items 3 and 4."), LLMList(1), LLMDict(EmptyMap),
         LLMDict([reasoning |-> "none fits"])}
        \cup {LLMDict([ranked_indices |-> v]) : v \in ranked_indices}
        \cup {LLMDict([ranked_indices |-> JList(<<JInt(2), JInt(0)>>),
                       reasoning |-> "closest"])}

NextRank ==
    \/ RetrieveContextBegin
    \/ \E response \in RankResponses : RetrieveContextResume(response)

\* the context items are those of test_llm.py, by their content
SpecRank ==
    /\ \E n \in 0..MaxItems, top_k \in {-1} \cup 0..MaxTopK :
            LET context_items ==
                    <<"This is about dogs", "This is about cats",
                      "This is about programming", "This is about Python",
                      "This is about birds">>
            IN  InitCalled([op |-> "retrieve_context", pc |-> "called",
                            context_data |-> SubSeq(context_items, 1, n),
                            top_k |-> top_k])
    /\ [][NextRank]_vars

(***************************************************************************)
(* get_response() applied to answers put together from a lead-in, an       *)
(* optional fenced block around a payload, and what follows the block.     *)
(***************************************************************************)
\* the answers, each with the block it was built around
Answers ==
    LET Payloads == DOMAIN JsonValues \cup {"Hi!", "", "{\"dialogue\":"}
        leads == {"", "Here you go:\n"}
        spaces == {"", "\n"}
        opens == {Fence, Fence \o "json"}
        follows == {"", "\nBye", "\n" \o Fence \o "json\n[1]\n" \o Fence}
    IN  {[content |-> l \o a \o p \o b, fenced |-> FALSE, block |-> ""] :
            l \in leads, a \in spaces, p \in Payloads, b \in spaces}
        \cup {[content |-> l \o o \o a \o p \o b \o Fence \o f,
               fenced |-> TRUE, block |-> p] :
                l \in leads, o \in opens, a \in spaces, p \in Payloads,
                b \in spaces, f \in follows}
        \cup {[content |-> l \o o \o a \o p, fenced |-> FALSE, block |-> ""] :
                l \in leads, o \in opens, a \in spaces, p \in Payloads}

NextGenerate ==
    \/ GetResponseBegin
    \/ \E outcome \in {[kind |-> "raised"], [kind |-> "no message"]}
                      \cup {[kind |-> "answer", content |-> a.content] : a \in Answers} :
            GetResponseResume(outcome)

SpecGenerate ==
    /\ \E json_format \in BOOLEAN :
            InitCalled([op |-> "get_response", pc |-> "called",
                        json_format |-> json_format])
    /\ [][NextGenerate]_vars

(***************************************************************************)
(* Every writer of the messages collection over one store: conversation    *)
(* turns with their summary refreshes, observations, the story calls,      *)
(* manage_history() and end_game(), on a cast of two.  A store of at most  *)
(* MaxOid documents never holds the SummaryEvery messages manage_history() *)
(* summarizes at; its second step runs in SpecHistory.                     *)
(***************************************************************************)
NextStore ==
    \/ \E t \in PlayerTexts :
            characters # <<>> /\ InteractBegin(characters[1]._id, t, None)
    \/ InteractResume(LLMText("Well, hello."), FALSE)
    \/ UpdateConversationSummaryBegin
    \/ \E i \in DOMAIN summary_tasks :
            UpdateConversationSummaryResume(i, LLMText("They greeted each other."))
    \/ \E x \in ObservationContexts :
            characters # <<>> /\ ObserveCharacterBegin(characters[1]._id, "general", x)
    \/ ObserveCharacterResume(LLMText("She paces."))
    \/ Cardinality(NarrativeBlocks) < MaxScenes /\ StartStoryBegin
    \/ \E resp \in {LLMNone, LLMText("Once upon a time")} : StartStoryResume(resp)
    \/ \E choice \in DirectorChoices :
            Cardinality(NarrativeBlocks) < MaxScenes /\ ProgressStoryBegin(choice)
    \/ \E resp \in SceneResponses : ProgressStoryResume(resp)
    \/ \E v \in HistoryIdInputs : ManageHistoryBegin(v)
    \/ EndGame

SpecStore == InitSummary /\ [][NextStore]_vars

(***************************************************************************)
(* The relationship graph under create_character, interact,                *)
(* observe_character and end_game, one call at a time.  The generation     *)
(* output of interact() may name any key in its relationships object: the   *)
(* schema of lines 186-190 only asks for numbers as values.                *)
(***************************************************************************)
\* the responses the interact() in progress may receive: plain text, or an
\* object whose relationships name the character itself or an id of no character
GraphResponses ==
    IF call.op = "interact"
    THEN {LLMText("Well, hello.")}
         \cup {LLMDict([name |-> call.character.name, dialogue |-> "Hi!", emotion |-> "joy",
                         relationships |-> [k \in {key} |-> 5]]) :
                    key \in {call.character_id, UnknownCharId}}
    ELSE {}

NextGraph ==
    \/ CreateCharacter
    \/ DrawCollides
    \/ DrawRaises
    \/ DrawSucceeds
    \/ \E c \in CharIds(characters), t \in PlayerTexts : InteractBegin(c, t, None)
    \/ \E resp \in GraphResponses : InteractResume(resp, FALSE)
    \/ \E c \in CharIds(characters), x \in ObservationContexts :
            ObserveCharacterBegin(c, "general", x)
    \/ ObserveCharacterResume(LLMText("She paces."))
    \/ EndGame

SpecGraph == InitWith(SmallPools, <<>>, <<>>) /\ [][NextGraph]_vars

(***************************************************************************)
(* Calls that overlap.  The server runs its handlers in threads            *)
(* (web/app.py line 15) and interact() gives up control while it awaits    *)
(* the generation service, so a create_character() or an end_game() may    *)
(* run from its first line to its last between the two steps of an         *)
(* interact(), and end_game() between the steps of a summary refresh.      *)
(***************************************************************************)
\* create_character(), lines 41-117, while an interact() awaits its response
CreateCharacterMeanwhile ==
    /\ call.op = "interact"
    /\ \E d \in Draws(attribute_pools) :
        /\ IdIsFree(characters, DrawId(d))
        /\ LET after == InsertCharacter(characters, relationships, d)
           IN  /\ characters' = after.characters
               /\ relationships' = after.relationships
               /\ result' = [op |-> "create_character", count |-> 1,
                             new_ids |-> <<DrawId(d)>>,
                             from_empty |-> characters = <<>> /\ relationships = <<>>]
    /\ UNCHANGED <<attribute_pools, conversations, messages, next_oid, summary_tasks,
                   season, call>>

\* end_game(), game_loop.py lines 318-328, while an interact() awaits its response
EndGameMeanwhile ==
    /\ call.op = "interact"
    /\ ClearSeason
    /\ result' = [op |-> "end_game"]
    /\ UNCHANGED <<attribute_pools, next_oid, summary_tasks, game_state, call, ended>>

\* a cast of one over pools of four ids; every response of interact() is without
\* a relationships field: none, plain text, or an object of two fields
NextOverlap ==
    \/ \E c \in CharIds(characters), t \in PlayerTexts : InteractBegin(c, t, None)
    \/ \E resp \in {LLMNone, LLMText("Well, hello."),
                     LLMDict([dialogue |-> "Hi!", emotion |-> "joy"])} :
            InteractResume(resp, FALSE)
    \/ Len(characters) < MaxCast /\ CreateCharacterMeanwhile
    \/ EndGameMeanwhile
    \/ EndGame
    \/ UpdateConversationSummaryBegin
    \/ \E i \in DOMAIN summary_tasks :
            UpdateConversationSummaryResume(i, LLMDict([summary |-> "They greeted."]))

SpecOverlap ==
    /\ LET cast == Directory(SubSeq(SetToSeq(Draws(TransportPools)), 1, 1))
       IN  InitWith(TransportPools, cast.characters, cast.relationships)
    /\ [][NextOverlap]_vars

(***************************************************************************)
(* create_character() calls whose store steps interleave: each thread      *)
(* keeps its character_doc and the ids it read at line 94, and performs    *)
(* its update_one calls, its insert_many and its insert_one one at a time. *)
(***************************************************************************)
\* the create_character() calls in progress
CreateThreads == IF call.op = "create_character_threads" THEN call.threads ELSE <<>>

\* lines 41-94: an id found free, the document built, the existing ids read.
\* The threads in progress have drawn ids that differ.
CreateCharacterEnter ==
    /\ Idle \/ CreateThreads # <<>>
    /\ Len(CreateThreads) < MaxThreads
    /\ \E d \in Draws(attribute_pools) :
        /\ IdIsFree(characters, DrawId(d))
        /\ \A t \in DOMAIN CreateThreads : CreateThreads[t].doc._id # DrawId(d)
        /\ call' = [op |-> "create_character_threads",
                    threads |-> Append(CreateThreads,
                                       [doc |-> CharacterDoc(d),
                                        existing |-> ExistingCharIds(characters),
                                        updated |-> 0, pc |-> "update_one"])]
    /\ UNCHANGED <<attribute_pools, store, next_oid, summary_tasks, season, result>>

\* lines 96-115: the next store call of thread t
CreateCharacterStoreStep(t) ==
    /\ t \in DOMAIN CreateThreads
    /\ LET thread == CreateThreads[t]
           new_id == thread.doc._id
       IN  CASE thread.pc = "update_one" /\ thread.updated < Len(thread.existing) ->
                  \* lines 98-101
                  LET existing_id == thread.existing[thread.updated + 1]
                  IN  /\ characters' = UpdateOne(characters, existing_id,
                            [FindOne(characters, existing_id) EXCEPT
                                !.relationships = MapSet(@, new_id, 0)])
                      /\ call' = [call EXCEPT !.threads[t].updated = @ + 1]
                      /\ UNCHANGED <<relationships, result>>
             [] thread.pc = "update_one" /\ thread.updated = Len(thread.existing) ->
                  \* lines 111-112
                  /\ relationships' = relationships \o NewRelationships(new_id, thread.existing)
                  /\ call' = [call EXCEPT !.threads[t].pc = "insert_one"]
                  /\ UNCHANGED <<characters, result>>
             [] thread.pc = "insert_one" ->
                  \* lines 115-117
                  /\ characters' = Append(characters,
                        [thread.doc EXCEPT
                            !.relationships = ReciprocalRelationships(thread.existing)])
                  \* the last thread to return leaves no call behind
                  /\ call' = IF Len(CreateThreads) = 1 THEN NoCall
                             ELSE [call EXCEPT !.threads =
                                     [i \in 1..(Len(CreateThreads) - 1) |->
                                         CreateThreads[IF i < t THEN i ELSE i + 1]]]
                  /\ result' = [op |-> "create_character", count |-> 1,
                                new_ids |-> <<new_id>>,
                                from_empty |-> thread.existing = <<>>]
                  /\ UNCHANGED relationships
    /\ UNCHANGED <<attribute_pools, conversations, messages, next_oid, summary_tasks,
                   season>>

NextRace ==
    \/ Len(characters) + Len(CreateThreads) < MaxCast /\ CreateCharacterEnter
    \/ \E t \in 1..MaxThreads : CreateCharacterStoreStep(t)
    \/ EndGame

SpecRace == InitWith(TransportPools, <<>>, <<>>) /\ [][NextRace]_vars

(***************************************************************************)
(* The character directory.                                                *)
(***************************************************************************)
\* C1: in every state reached by create_character / create_characters calls, the
\* ids of the characters in the collection are pairwise distinct.
C1_IdsPairwiseDistinct ==
    \A i, j \in DOMAIN characters : i # j => characters[i]._id # characters[j]._id

\* three characters stored by one create_characters call
C1_ThreeDistinctCreated ==
    /\ Idle
    /\ result.op = "create_characters"
    /\ Len(result.new_ids) = 3
    /\ Len(characters) >= 3

\* C2: create_character always terminates: while the call is in its uniqueness
\* loop, some iteration can end the loop, by drawing a free id or by raising an
\* error; it never sits in a state where every iteration only retries.
C2_DrawLoopCanEnd ==
    InDrawLoop =>
        \/ \E d \in Draws(call.pools) : IdIsFree(characters, DrawId(d))
        \/ DrawCanRaise(call.pools)

UnorderedPairs(ids) == {{a, b} : a, b \in ids} \ {{a} : a \in ids}

RecordsOfPair(pair) ==
    {i \in DOMAIN relationships :
        {relationships[i].char1_id, relationships[i].char2_id} = pair}

\* C3: when create_characters(n) has returned after starting from an empty
\* directory, the relationships collection holds exactly n(n-1)/2 records, one per
\* unordered pair of the created characters, and every created character's stored
\* map has exactly n-1 entries, one per other character, all with affinity 0.
C3_BatchFromEmpty ==
    (Idle /\ result.op = "create_characters" /\ result.from_empty) =>
        LET n == result.count
            ids == Range(result.new_ids)
        IN  /\ Cardinality(ids) = n
            /\ CharIds(characters) = ids
            /\ 2 * Len(relationships) = n * (n - 1)
            /\ \A pair \in UnorderedPairs(ids) : Cardinality(RecordsOfPair(pair)) = 1
            /\ \A i \in DOMAIN relationships : relationships[i].affinity_score = 0
            /\ \A i \in DOMAIN characters :
                /\ DOMAIN characters[i].relationships = ids \ {characters[i]._id}
                /\ Cardinality(DOMAIN characters[i].relationships) = n - 1
                /\ \A k \in DOMAIN characters[i].relationships :
                    characters[i].relationships[k] = 0

\* create_characters(3) returned from an empty directory: 3 records, 2 entries each
C3_ThreeFromEmpty ==
    /\ Idle
    /\ result.op = "create_characters"
    /\ result.from_empty
    /\ result.count = 3
    /\ Len(relationships) = 3
    /\ \A i \in DOMAIN characters : Cardinality(DOMAIN characters[i].relationships) = 2

(***************************************************************************)
(* The conversation turn.                                                  *)
(***************************************************************************)
\* C4: in every state reached by create_character, interact and
\* observe_character calls, each stored character's relationships map has an
\* entry for every character that existed when it was created (the characters
\* stored before it).
C4_MapCoversEarlierCharacters ==
    \A i, j \in DOMAIN characters :
        i < j => characters[i]._id \in DOMAIN characters[j].relationships

HasDialogue(payload) == "dialogue" \in DOMAIN payload /\ payload.dialogue # ""

IsLLMFailure(payload) ==
    /\ "error" \in DOMAIN payload
    /\ payload.error = "Failed to get response from LLM."
    /\ "dialogue" \notin DOMAIN payload

\* C5 as stated: for an existing character and conversation, whatever the
\* generation service does (a structured object, plain text, or a failure),
\* the payload interact() returns has a present, non-empty dialogue field.
C5_DialogueAlwaysPresent ==
    [][\A resp \in PendingInteractResponses :
          (resp.kind \in {"none", "str", "dict"} /\ InteractResume(resp, FALSE))
              => HasDialogue(result')]_vars

\* C5 as amended: when interact() returns (text-to-speech did not fail), a failed
\* or empty generation result gives the explicit error payload with no dialogue
\* field; non-empty plain text gives dialogue equal to that text; a non-empty
\* object gives its own dialogue field, or "I am speechless." when it has none,
\* so the dialogue is non-empty unless the object itself carries an empty one.
C5_DialogueOrExplicitError ==
    [][\A resp \in PendingInteractResponses :
          (resp.kind \in {"none", "str", "dict"} /\ InteractResume(resp, FALSE)) =>
              CASE ~Truthy(resp) -> IsLLMFailure(result')
                [] Truthy(resp) /\ resp.kind = "str" ->
                      HasDialogue(result') /\ result'.dialogue = resp.text
                [] Truthy(resp) /\ resp.kind = "dict" /\ "dialogue" \in DOMAIN resp.dict ->
                      /\ "dialogue" \in DOMAIN result'
                      /\ result'.dialogue = resp.dict.dialogue
                [] Truthy(resp) /\ resp.kind = "dict" /\ "dialogue" \notin DOMAIN resp.dict ->
                      HasDialogue(result') /\ result'.dialogue = "I am speechless."]_vars

\* interact() returned the default dialogue for an object without one
C5_SpeechlessReturned ==
    /\ result.op = "interact"
    /\ "dialogue" \in DOMAIN result
    /\ result.dialogue = "I am speechless."

\* C6: when the generation service returns non-empty plain text, the stored
\* character's mood, relationships, traits and subconscious traits are the same
\* after the call as before it, and the payload interact() returns has dialogue
\* equal to that text and the parse-failure sentinel as memory note.
C6_PlainTextFallback ==
    [][\A resp \in PendingInteractResponses, tts_fails \in BOOLEAN :
          (resp.kind = "str" /\ resp.text # "" /\ InteractResume(resp, tts_fails)) =>
              /\ characters' = characters
              /\ ~tts_fails =>
                    /\ HasDialogue(result')
                    /\ result'.dialogue = resp.text
                    /\ result'.memory_note = ParseFailureNote]_vars

\* a plain-text turn with a character whose mood an earlier turn had changed
C6_FallbackKeptChangedMood ==
    /\ result.op = "interact"
    /\ "memory_note" \in DOMAIN result
    /\ result.memory_note = ParseFailureNote
    /\ result.dialogue = "Well, hello."
    /\ result.character_state.mood = "happy"
    /\ \E i \in DOMAIN characters :
        characters[i].mood = "happy" /\ characters[i].traits = <<"bold">>

\* the conversation id is given and names no conversation of the collection
NamesNoConversation(conversation_id) ==
    /\ conversation_id # None
    /\ ~(IsValidObjectId(conversation_id)
         /\ Exists(conversations, ObjectIdOf(conversation_id)))

\* C7: interact() with a character id that does not exist, or with a conversation
\* id that is given and does not exist, returns an explicit not-found error,
\* changes no collection and issues no generation request.
C7_NotFoundIsExplicitError ==
    [][\A c \in CharIdInputs, t \in PlayerTexts, v \in ConversationIdInputs :
          (InteractBegin(c, t, v) /\ (~Exists(characters, c) \/ NamesNoConversation(v))) =>
              /\ "error" \in DOMAIN result'
              /\ result'.error \in {"Character not found.", "Conversation not found."}
              /\ store' = store
              /\ call' = NoCall]_vars

\* C8: after end_game(), from whatever state it is called in, the characters,
\* relationships, conversations and messages collections are empty and the
\* GameLoop is not running; after the transport's handler the season status is Idle.
C8_EndGameClearsEverything ==
    /\ result.op = "end_game" =>
            /\ characters = <<>> /\ relationships = <<>>
            /\ conversations = <<>> /\ messages = <<>>
            /\ ~is_running
    /\ (result.op = "handle_end_game" /\ result.emitted = "game_state") =>
            /\ characters = <<>> /\ relationships = <<>>
            /\ conversations = <<>> /\ messages = <<>>
            /\ ~is_running
            /\ game_state.status = "Idle" /\ ~game_state.is_running

\* end_game() has returned in a season that had a conversation turn and a scene
C8_EndedAfterTalkAndScene ==
    /\ result.op = "end_game"
    /\ summary_tasks # <<>>
    /\ next_oid > 4
    /\ characters = <<>>

C10_NoSceneAfterGameOver ==
    [][\A resp \in SceneResponses :
          (ended /\ ProgressStoryResume(resp)) =>
              /\ Len(messages') = Len(messages)
              /\ ~is_running']_vars

\* C11: after a progress_story() call that received is_game_over = true, and
\* before any later story call, get_latest_story_segment() reports
\* is_game_over = true together with the choices of that call.
C11_LatestSegmentCarriesGameOver ==
    (/\ result.op = "progress_story"
     /\ "is_game_over" \in DOMAIN result
     /\ result.is_game_over) =>
        /\ LatestStorySegment(messages).is_game_over
        /\ LatestStorySegment(messages).choices = result.choices

\* the premiere object start_story() received
IsPremiereObject(resp) == resp.kind = "dict"

\* the messages a step has added
NewMessages == SubSeq(messages', Len(messages) + 1, Len(messages'))

C13_FailedPremiereStillLogged ==
    [][\A resp \in PremiereResponses :
          (~IsPremiereObject(resp) /\ StartStoryResume(resp)) =>
              /\ Len(messages') = Len(messages) + 1
              /\ LET log == messages'[Len(messages')]
                 IN  /\ log.director_control
                     /\ log.choices = <<>>
                     /\ log.is_game_over = FALSE
                     /\ LatestStorySegment(messages')
                            = [dialogue |-> log.content, choices |-> <<>>,
                               is_game_over |-> FALSE]
                     /\ LatestStorySegment(messages').dialogue
                            # "The story hasn't started yet."]_vars

\* start_story() has logged a failed generation after an earlier story message
C13_FailedPremiereAfterScene ==
    /\ result.op = "start_story"
    /\ "title" \notin DOMAIN result
    /\ "error" \notin DOMAIN result
    /\ Cardinality(DirectorControlled(messages)) >= 2
    /\ messages[Len(messages)].content
            = "Error: The AI narrator provided an invalid response. Please try again."

\* C14: whenever the characters collection is empty, start_story() returns an
\* error payload with an empty choice list, sends no generation request and
\* persists no message; so does the transport's handler.
C14_NoPremiereWithoutCast ==
    [][/\ (characters = <<>> /\ StartStoryBegin) =>
              /\ "error" \in DOMAIN result'
              /\ result'.choices = <<>>
              /\ call' = NoCall
              /\ messages' = messages
       /\ (characters = <<>> /\ HandleStartStory) =>
              /\ result'.emitted = "error"
              /\ call' = NoCall
              /\ messages' = messages]_vars

\* start_story() has refused to start after end_game() emptied a season
C14_RefusedAfterEndGame ==
    /\ result.op = "start_story"
    /\ "error" \in DOMAIN result
    /\ characters = <<>>
    /\ next_oid > 1

\* the positions of the messages start_story() and progress_story() wrote
StoryWrites ==
    {i \in DOMAIN messages :
        messages[i].conversation_id \in {SystemSeasonStart, SystemStoryProgress}}

\* the last n characters of text, all of it when it is shorter
IsTrailing(tail, text, n) ==
    /\ Len(tail) = IF Len(text) < n THEN Len(text) ELSE n
    /\ tail = SubSeq(text, Len(text) - Len(tail) + 1, Len(text))

\* C15: the continuity context of every progress_story() call is the trailing
\* 700 characters (the whole content when shorter) of the director-control
\* message persisted last, the one the preceding start_story() or
\* progress_story() wrote; it is empty when there is none.
C15_ContextIsTrailing700 ==
    [][\A choice \in DirectorChoices :
          (characters # <<>> /\ ProgressStoryBegin(choice)) =>
              IF StoryWrites = {}
              THEN call'.story_context = ""
              ELSE LET last == CHOOSE i \in StoryWrites : \A j \in StoryWrites : j <= i
                       context == call'.story_context
                       summary == SubSeq(context, Len("The story so far:\n...") + 1,
                                         Len(context) - 1)
                   IN  /\ IsTrailing(summary, messages[last].content, 700)
                       /\ context = "The story so far:\n..." \o summary \o "\n"]_vars

\* a progression prompt sent with a context cut to 700 characters
C15_ContextWasCut ==
    /\ call.op = "progress_story"
    /\ StoryWrites # {}
    /\ Len(messages[Len(messages)].content) > 700
    /\ Len(call.story_context) = 700 + Len("The story so far:\n...") + 1

\* a response interact() goes through with: an object or a non-empty text
IsUsable(resp) == Truthy(resp) /\ resp.kind \in {"str", "dict"}

\* C16: every successful interact() inserts exactly two messages carrying the
\* conversation's id, first the player's input and then the character's
\* dialogue, and appends their two ids in that order to the end of the
\* conversation's message ids, the ids already there unchanged.
C16_TwoMessagesAppended ==
    [][\A resp \in PendingInteractResponses :
          (IsUsable(resp) /\ InteractResume(resp, FALSE)) =>
              LET conv == ObjectIdOf(call.conversation_id)
                  first == messages'[Len(messages) + 1]
                  second == messages'[Len(messages) + 2]
              IN  /\ Len(messages') = Len(messages) + 2
                  /\ SubSeq(messages', 1, Len(messages)) = messages
                  /\ first.conversation_id = call.conversation_id
                  /\ first.speaker_type = "player"
                  /\ first.content = call.text
                  /\ second.conversation_id = call.conversation_id
                  /\ second.speaker_type = "character"
                  /\ second.speaker_id = call.character_id
                  /\ second.content = result'.dialogue
                  /\ first._id # second._id
                  /\ FindOne(conversations', conv).messages
                        = FindOne(conversations, conv).messages
                            \o <<first._id, second._id>>]_vars

\* the second turn of a conversation has returned
C16_SecondTurnAppended ==
    /\ result.op = "interact"
    /\ "dialogue" \in DOMAIN result
    /\ \E i \in DOMAIN conversations :
        /\ ObjectIdStr(conversations[i]._id) = result.conversation_id
        /\ Len(conversations[i].messages) = 4

\* the value the generation output gives a field, the one the character had
\* when the call began if the output has no such field
OutputOr(resp, snapshot, field) ==
    IF resp.kind = "dict" /\ field \in DOMAIN resp.dict
    THEN resp.dict[field] ELSE snapshot[field]

\* C17: after a successful interact() on character c, each of c's stored mood,
\* relationships, traits and subconscious traits is the value of that field in
\* the generation output when it is present, replacing the old value, and
\* otherwise the value c had when the call began; no other field of c and no
\* other character is changed.
C17_FourFieldsOverwritten ==
    [][\A resp \in PendingInteractResponses :
          (IsUsable(resp) /\ InteractResume(resp, FALSE)) =>
              LET before == FindOne(characters, call.character_id)
                  after == FindOne(characters', call.character_id)
              IN  /\ after.mood = OutputOr(resp, call.character, "mood")
                  /\ after.relationships = OutputOr(resp, call.character, "relationships")
                  /\ after.traits = OutputOr(resp, call.character, "traits")
                  /\ after.subconscious_traits
                        = OutputOr(resp, call.character, "subconscious_traits")
                  /\ after = [before EXCEPT
                                !.mood = after.mood,
                                !.relationships = after.relationships,
                                !.traits = after.traits,
                                !.subconscious_traits = after.subconscious_traits]
                  /\ Len(characters') = Len(characters)
                  /\ \A i \in DOMAIN characters :
                        characters[i]._id # call.character_id
                            => characters'[i] = characters[i]]_vars

\* interact() has replaced the relationships of one of two characters
C17_RelationshipsReplaced ==
    /\ result.op = "interact"
    /\ "character_state" \in DOMAIN result
    /\ Len(characters) = 2
    /\ \E i \in DOMAIN characters :
        /\ characters[i].relationships = result.character_state.relationships
        /\ DOMAIN characters[i].relationships # {}
        /\ \A k \in DOMAIN characters[i].relationships :
                characters[i].relationships[k] = 5

\* C18: when the summarization request of the refresh interact() started yields
\* a plain string, the refresh persists that string as the summary text of the
\* conversation.
C18_PlainSummaryPersisted ==
    [][\A i \in DOMAIN summary_tasks, summary \in SummaryResponses :
          (/\ summary.kind = "str"
           /\ Exists(conversations, ObjectIdOf(summary_tasks[i].conversation_id))
           /\ UpdateConversationSummaryResume(i, summary)) =>
              FindOne(conversations', ObjectIdOf(summary_tasks[i].conversation_id)).summary
                    = summary.text]_vars

\* C19: when the summarization request of a refresh fails entirely, the summary
\* text and the stored summary payload of the conversation stay as they were.
C19_FailedRefreshKeepsSummary ==
    [][\A i \in DOMAIN summary_tasks :
          UpdateConversationSummaryResume(i, LLMNone) =>
              /\ Len(conversations') = Len(conversations)
              /\ \A k \in DOMAIN conversations :
                    /\ conversations'[k].summary = conversations[k].summary
                    /\ conversations'[k].context = conversations[k].context]_vars

\* a refresh has failed on a conversation that an earlier refresh had summarized
C19_FailedAfterSummarized ==
    \E i \in DOMAIN summary_tasks, k \in DOMAIN conversations :
        /\ summary_tasks[i].pc = "done"
        /\ summary_tasks[i].summary.kind = "none"
        /\ summary_tasks[i].conversation_id = ObjectIdStr(conversations[k]._id)
        /\ conversations[k].summary = "They greeted each other."
        /\ "summary_data" \in DOMAIN conversations[k].context
        /\ \A j \in DOMAIN summary_tasks :
                summary_tasks[j].conversation_id = summary_tasks[i].conversation_id
                    => j <= i

\* C20: interact() schedules the refresh with both new ids already in the
\* conversation and returns without waiting for it, the summary as it was
\* before the call; the refresh, when its generation succeeds, is applied in a
\* later step.
C20_RefreshAfterReturn ==
    [][/\ \A resp \in PendingInteractResponses :
            (IsUsable(resp) /\ InteractResume(resp, FALSE)) =>
                LET conv == ObjectIdOf(call.conversation_id)
                    task == summary_tasks'[Len(summary_tasks')]
                IN  /\ Len(summary_tasks') = Len(summary_tasks) + 1
                    /\ task.conversation_id = call.conversation_id
                    /\ task.pc = "scheduled"
                    /\ SubSeq(FindOne(conversations', conv).messages,
                              Len(FindOne(conversations', conv).messages) - 1,
                              Len(FindOne(conversations', conv).messages))
                          = <<next_oid, next_oid + 1>>
                    /\ FindOne(conversations', conv).summary
                          = FindOne(conversations, conv).summary
                    /\ FindOne(conversations', conv).context
                          = FindOne(conversations, conv).context
       /\ \A i \in DOMAIN summary_tasks, summary \in SummaryResponses :
            (/\ summary.kind = "dict"
             /\ Exists(conversations, ObjectIdOf(summary_tasks[i].conversation_id))
             /\ UpdateConversationSummaryResume(i, summary)) =>
                FindOne(conversations', ObjectIdOf(summary_tasks[i].conversation_id)).summary
                    = Get(summary.dict, "summary", "")]_vars

\* interact() has returned its envelope, the refresh it started has not run and
\* the conversation still has the summary it was created with
C20_ReturnedBeforeRefresh ==
    /\ result.op = "interact"
    /\ "dialogue" \in DOMAIN result
    /\ summary_tasks # <<>>
    /\ summary_tasks[Len(summary_tasks)].pc = "scheduled"
    /\ summary_tasks[Len(summary_tasks)].conversation_id = result.conversation_id
    /\ \E k \in DOMAIN conversations :
        /\ ObjectIdStr(conversations[k]._id) = result.conversation_id
        /\ Len(conversations[k].messages) = 2
        /\ conversations[k].summary = ""

\* C21: interact() does not roll back: when the speech synthesis raises, the
\* exception reaches the caller while the two messages inserted, the two ids
\* appended to the conversation and the overwrite of the character's fields
\* made earlier in the call all stay in the store.
C21_NoRollbackOnSpeechFailure ==
    [][\A resp \in PendingInteractResponses :
          (IsUsable(resp) /\ InteractResume(resp, TRUE)) =>
              LET conv == ObjectIdOf(call.conversation_id)
                  first == messages'[Len(messages) + 1]
                  second == messages'[Len(messages) + 2]
                  after == FindOne(characters', call.character_id)
              IN  /\ result' = Raised("interact", "TTSError")
                  /\ Len(messages') = Len(messages) + 2
                  /\ first.speaker_type = "player"
                  /\ first.content = call.text
                  /\ second.speaker_type = "character"
                  /\ second.speaker_id = call.character_id
                  /\ FindOne(conversations', conv).messages
                        = FindOne(conversations, conv).messages
                            \o <<first._id, second._id>>
                  /\ after.mood = OutputOr(resp, call.character, "mood")
                  /\ after.relationships = OutputOr(resp, call.character, "relationships")
                  /\ after.traits = OutputOr(resp, call.character, "traits")
                  /\ after.subconscious_traits
                        = OutputOr(resp, call.character, "subconscious_traits")]_vars

\* the synthesis has failed on a turn that changed the character's mood
C21_RaisedAfterWrites ==
    /\ result = Raised("interact", "TTSError")
    /\ Len(messages) >= 2
    /\ messages[Len(messages)].speaker_type = "character"
    /\ \E i \in DOMAIN characters :
        /\ characters[i]._id = messages[Len(messages)].speaker_id
        /\ characters[i].mood = "happy"

\* C22: no exception escapes interact, observe_character, start_story or
\* progress_story because of what the generation service returned: whatever
\* the outcome, the call returns a response payload or an explicit error
\* payload.
C22_NoExceptionFromGeneration ==
    ~("raised" \in DOMAIN result /\ result.raised = "AttributeError")

\* C23: observe_character never mutates a character: across each of its
\* steps every character document, every conversation and every relationship
\* record stays what it was, and the messages either stay as they were or
\* gain exactly one document at the end.
C23_ObserveOnlyInsertsOneMessage ==
    [][(\/ \E c \in CharIdInputs, o \in ObservationTypes, x \in ObservationContexts :
            ObserveCharacterBegin(c, o, x)
        \/ \E resp \in ObservationResponses : ObserveCharacterResume(resp))
       => /\ characters' = characters
          /\ conversations' = conversations
          /\ relationships' = relationships
          /\ \/ messages' = messages
             \/ /\ Len(messages') = Len(messages) + 1
                /\ SubSeq(messages', 1, Len(messages)) = messages]_vars

\* an observation has been returned while a conversation of two messages is
\* in the store
C23_ObservedAfterTurn ==
    /\ result.op = "observe_character"
    /\ "observation" \in DOMAIN result
    /\ Observations # {}
    /\ \E i \in DOMAIN conversations : Len(conversations[i].messages) = 2

\* the observation text observe_character owes for a usable answer: the text
\* itself, or the object's observation field, "" when it has none
ObservationOf(resp) ==
    IF resp.kind = "str" THEN resp.text ELSE Get(resp.dict, "observation", "")

\* C24 as stated: for an existing character, observe_character logs exactly
\* one observation message and returns the observation whatever the
\* generation service returned: an object, a plain text or a failure.
C24_ObservationAlwaysLogged ==
    [][\A resp \in ObservationResponses :
          (resp.kind \in {"dict", "str", "none"} /\ ObserveCharacterResume(resp)) =>
              /\ Len(messages') = Len(messages) + 1
              /\ "observation" \in DOMAIN result']_vars

\* C24 as amended: for an existing character, a non-empty object or non-empty
\* text from the generation service makes observe_character log exactly one
\* observation message about that character and return the observation (the
\* text wrapped with state "unknown" and the format note); a failure or an
\* empty value makes it return the explicit error payload and log nothing.
C24_ObservationLoggedOrExplicitError ==
    [][\A resp \in ObservationResponses :
          (resp.kind \in {"dict", "str", "none"} /\ ObserveCharacterResume(resp)) =>
              IF IsUsable(resp)
              THEN LET logged == messages'[Len(messages')]
                   IN  /\ Len(messages') = Len(messages) + 1
                       /\ SubSeq(messages', 1, Len(messages)) = messages
                       /\ logged.observer = "DIRECTOR"
                       /\ logged.character_id = call.character_id
                       /\ logged.observation_data.observation = ObservationOf(resp)
                       /\ result'.observation = ObservationOf(resp)
                       /\ result'.character_name = call.character.name
                       /\ resp.kind = "str" =>
                            /\ result'.character_state = "unknown"
                            /\ result'.director_insights
                                = <<"Character state unclear due to response format error.">>
                            /\ result'.suggested_actions = <<>>
              ELSE /\ messages' = messages
                   /\ result' = ErrorPayload("observe_character",
                                             "Failed to generate observation.")]_vars

\* an observation has failed after an earlier one was logged
C24_FailedAfterLogged ==
    /\ result = ErrorPayload("observe_character", "Failed to generate observation.")
    /\ Cardinality(Observations) = 1

\* C25: manage_history(conversation) asks for a summary exactly when the
\* number of messages of that conversation is a positive multiple of 20; for
\* any other count, 0 included, it sends no request and leaves the store as
\* it was.
C25_SummaryEveryTwentyMessages ==
    [][\A v \in HistoryIdInputs :
          ManageHistoryBegin(v) =>
              LET n == Cardinality(MessagesOf(v))
                  due == \E m \in 1..n : n = 20 * m
              IN  /\ (call'.op = "manage_history") <=> due
                  /\ ~due => (call' = call /\ store' = store)]_vars

\* the request is out for a conversation of 40 messages
C25_DueAtForty ==
    /\ call.op = "manage_history"
    /\ call.pc = "llm"
    /\ Cardinality(MessagesOf(call.conversation_id)) = 40

\* retrieve_context has returned from the call recorded in result
HasRetrieved == result.op = "retrieve_context"

\* the ranking request was answered by an object whose ranked_indices is a list
HasIndexList ==
    /\ HasRetrieved
    /\ result.requested
    /\ result.response.kind = "dict"
    /\ "ranked_indices" \in DOMAIN result.response.dict
    /\ result.response.dict.ranked_indices.type = "list"

\* the answer is well-formed: the list holds integers only
IsWellFormedRanking ==
    /\ HasIndexList
    /\ \A n \in DOMAIN result.response.dict.ranked_indices.elements :
          result.response.dict.ranked_indices.elements[n].type = "int"

\* the first k elements of a list, all of them when there are fewer
FirstK(seq, k) == SubSeq(seq, 1, IF k < Len(seq) THEN k ELSE Len(seq))

\* C26: when the ranking response is well-formed, rank_context returns the
\* items at the response's indices that lie in [0, len(items)), in the order
\* the response lists them, cut to the first top_k (top_k a count, 0 or
\* more); out-of-range indices are dropped and not replaced by other items.
C26_RankedInRangeCutToTopK ==
    (IsWellFormedRanking /\ result.top_k >= 0) =>
        LET items == result.context_data
            listed == result.response.dict.ranked_indices.elements
            in_range == SelectSeq(listed,
                                  LAMBDA i : 0 <= i.value /\ i.value < Len(items))
            kept == FirstK(in_range, result.top_k)
        IN  result.returned = [n \in DOMAIN kept |-> items[kept[n].value + 1]]

\* indices [5, 1, 2] over four items with top_k = 3 have given items 1 and 2
C26_FiveOneTwoOverFour ==
    /\ IsWellFormedRanking
    /\ result.response.dict.ranked_indices = JList(<<JInt(5), JInt(1), JInt(2)>>)
    /\ Len(result.context_data) = 4
    /\ result.top_k = 3
    /\ result.returned = <<"This is about cats", "This is about programming">>

\* C27: for every items list, every top_k (a count, 0 or more) and every
\* service response, the length of rank_context's result is at most top_k and
\* at most len(items).
C27_AtMostTopKAndAtMostItems ==
    (HasRetrieved /\ result.top_k >= 0) =>
        /\ Len(result.returned) <= result.top_k
        /\ Len(result.returned) <= Len(result.context_data)

\* C28: rank_context returns the first top_k items in original order (all of
\* them when there are fewer, none when items is empty) whenever the response
\* is not an object with a ranked-indices list or the generation call failed
\* (top_k a count, 0 or more).
C28_FallbackWithoutIndexList ==
    (HasRetrieved /\ ~HasIndexList /\ result.top_k >= 0) =>
        result.returned = FirstK(result.context_data, result.top_k)

\* C29: rank_context returns items of the list only and no position of the
\* list more than once, even when the response repeats an index.
C29_NoItemReturnedTwice ==
    HasRetrieved =>
        /\ \A n \in DOMAIN result.returned :
              result.returned[n] \in Range(result.context_data)
        /\ \A m, n \in DOMAIN result.returned :
              m # n => result.returned[m] # result.returned[n]

MessagesKept ==
    /\ Len(messages') >= Len(messages)
    /\ SubSeq(messages', 1, Len(messages)) = messages

\* C31: a step of interact, observe_character, start_story, progress_story,
\* manage_history or a summary refresh changes no field of a message already
\* inserted and removes none; the only step that removes messages is end_game,
\* which removes them all.
C31_MessagesImmutable == [][MessagesKept \/ (EndGame /\ messages' = <<>>)]_vars

\* an observation followed by the two messages of a later conversation turn
C31_TurnAfterObservation ==
    \E i \in Observations :
        /\ i + 2 <= Len(messages)
        /\ "conversation_id" \in DOMAIN messages[i + 1]
        /\ call = NoCall


(***************************************************************************)
(* The two representations of a relationship.                              *)
(***************************************************************************)
\* the records of the relationships collection for the pair (c, d)
RecordsOf(rels, c, d) ==
    {i \in DOMAIN rels : {rels[i].char1_id, rels[i].char2_id} = {c, d}}

\* the pairs (c, d) for which this step changed c's embedded affinity toward d
AffinityChanged ==
    {<<c, d>> \in CharIds(characters) \X CharIds(characters) :
        /\ Exists(characters', c)
        /\ d \in DOMAIN FindOne(characters, c).relationships
        /\ d \in DOMAIN FindOne(characters', c).relationships
        /\ FindOne(characters', c).relationships[d] # FindOne(characters, c).relationships[d]}

\* C32: a step of interact() leaves the relationships collection as it was, and
\* when it changes c's embedded affinity toward d the record of the pair (c, d)
\* still has affinity 0 and an empty interaction history, a value other than
\* the embedded one.
C32_InteractLeavesRecordsAlone ==
    [][(call.op = "interact" \/ call'.op = "interact") =>
        /\ relationships' = relationships
        /\ \A p \in AffinityChanged :
              /\ RecordsOf(relationships', p[1], p[2]) # {}
              /\ \A i \in RecordsOf(relationships', p[1], p[2]) :
                    /\ relationships'[i].affinity_score = 0
                    /\ relationships'[i].interaction_history = <<>>
                    /\ relationships'[i].affinity_score
                          # FindOne(characters', p[1]).relationships[p[2]]]_vars

\* an interact() has returned and left an embedded affinity of 5 beside a
\* record of affinity 0
C32_EmbeddedFiveRecordZero ==
    /\ result.op = "interact"
    /\ \E i \in DOMAIN characters, d \in CharIds(characters) :
          /\ d \in DOMAIN characters[i].relationships
          /\ characters[i].relationships[d] = 5
          /\ \E j \in RecordsOf(relationships, characters[i]._id, d) :
                relationships[j].affinity_score = 0


(***************************************************************************)
(* interact() when the generation call gives no response.                  *)
(***************************************************************************)
\* the step on which interact() returns for want of a response
GenerationFailed ==
    /\ call.op = "interact"
    /\ result' = ErrorPayload("interact", "Failed to get response from LLM.")

\* C35: when interact() returns for want of a response, no message has been
\* inserted, no character updated, and the conversations collection holds no
\* conversation the call created: the store is as it was before the call.
C35_FailedGenerationLeavesStoreAlone ==
    [][GenerationFailed =>
        /\ UNCHANGED <<characters, relationships, messages>>
        /\ ~(call.created /\ Exists(conversations', ObjectIdOf(call.conversation_id)))]_vars


(***************************************************************************)
(* The transport's flags beside the GameLoop's own.                        *)
(***************************************************************************)
\* C37: between handler executions, while game_state holds a GameLoop its
\* is_running flag equals the GameLoop's own is_running flag.
C37_TransportFlagFollowsLoop ==
    (Idle /\ game_state.game_loop) => game_state.is_running = is_running


(***************************************************************************)
(* The creation endpoints and the end_game event.                          *)
(***************************************************************************)
\* the request of this step was answered without a 201, no call on the engine
\* was started and no document was written
RefusedWithoutWrite ==
    /\ "status" \in DOMAIN result'
    /\ result'.status # 201
    /\ call' = NoCall
    /\ UNCHANGED store

\* the batch counts that are whole numbers from 3 to 8
IsCastSize(count) == count.type = "int" /\ count.value >= 3 /\ count.value <= 8

\* C33: a create or create_batch request received while game_state is not
\* running or holds no GameLoop, and a create_batch request whose count is not a
\* whole number from 3 to 8, is refused and creates no character and no
\* relationship record; characters are only ever added while a season is held.
C33_CreationOnlyInSeason ==
    [][/\ (CreateCharacterEndpoint /\ ~SeasonHeld) => RefusedWithoutWrite
       /\ \A count \in {JInt(n) : n \in 0..9}
                        \cup {JFloat(2), JFloat(3), JFloat(8), JStr("5"), JNull} :
             (CreateCharacterBatchEndpoint(count) /\ (~SeasonHeld \/ ~IsCastSize(count)))
                => RefusedWithoutWrite
       /\ Len(characters') > Len(characters) => SeasonHeld]_vars

\* a batch of two was refused in a running season that already has a cast
C33_SmallBatchRefused ==
    /\ SeasonHeld
    /\ characters # <<>>
    /\ result = [op |-> "create_character_batch_endpoint", status |-> 400,
                 error |-> "Cast size must be between 3 and 8 contestants."]

\* C34: an end_game event received while game_state is running leaves
\* game_state reset (not running, status Idle, no GameLoop), whether end_game()
\* completed or raised part-way; received while game_state is not running it
\* changes neither game_state nor the store nor the GameLoop.
C34_EndGameAlwaysResets ==
    [][/\ (game_state.is_running
            /\ (HandleEndGame \/ \E cleared \in 0..3 : HandleEndGameRaising(cleared)))
          => game_state' = [game_loop |-> FALSE, is_running |-> FALSE, status |-> "Idle"]
       /\ (~game_state.is_running /\ HandleEndGame)
          => UNCHANGED <<store, game_state, is_running>>]_vars

\* the cleanup raised before it reached the characters, and the transport is
\* reset beside a cast that is still stored
C34_ResetAfterFailedCleanup ==
    /\ result = [op |-> "handle_end_game", emitted |-> "error"]
    /\ game_state = [game_loop |-> FALSE, is_running |-> FALSE, status |-> "Idle"]
    /\ characters # <<>>


(***************************************************************************)
(* The relationship graph.                                                 *)
(***************************************************************************)
\* C36: between operations, every key of every stored character's
\* relationships map is the id of another stored character, and both ids of
\* every relationship record are ids of stored characters.
C36_ReferentialIntegrity ==
    Idle =>
        /\ \A i \in DOMAIN characters :
              DOMAIN characters[i].relationships
                  \subseteq CharIds(characters) \ {characters[i]._id}
        /\ \A j \in DOMAIN relationships :
              {relationships[j].char1_id, relationships[j].char2_id}
                  \subseteq CharIds(characters)


(***************************************************************************)
(* Calls that overlap.                                                     *)
(***************************************************************************)
\* the step on which an interact() that received a response returns
InteractReturns == call.op = "interact" /\ call'.op = "none"

\* C39: an interact() on character c whose generation output has no
\* relationships field removes no entry from c's stored relationships map, an
\* entry added by a create_character() during the wait included.
C39_InteractKeepsEntries ==
    [][(InteractReturns /\ Exists(characters, call.character_id))
        => /\ Exists(characters', call.character_id)
           /\ DOMAIN FindOne(characters, call.character_id).relationships
                \subseteq DOMAIN FindOne(characters', call.character_id).relationships]_vars

\* the four collections end_game() clears
StoreEmpty ==
    characters = <<>> /\ relationships = <<>> /\ conversations = <<>> /\ messages = <<>>

\* C40: from a store that end_game() has emptied, the return of an interact()
\* begun before it and every step of a summary refresh begun before it leave
\* the four collections empty.
C40_StoreStaysEmpty ==
    [][(StoreEmpty /\ (InteractReturns \/ summary_tasks' # summary_tasks)) => StoreEmpty']_vars


\* C38: once no create_character() call is in progress, any two stored
\* characters have exactly one relationship record for their pair and each has
\* an entry for the other in its relationships map.
C38_PairsLinkedOnce ==
    Idle =>
        \A a \in DOMAIN characters, b \in DOMAIN characters :
            a # b =>
                /\ Cardinality(RecordsOf(relationships, characters[a]._id,
                                         characters[b]._id)) = 1
                /\ characters[b]._id \in DOMAIN characters[a].relationships

====
